---- MODULE Spec2Model ----
(***************************************************************************)
(* A model of the post-processing and geometry core of the OCR library:    *)
(*   - the recognition post-processors (SAR, PARSeq, MASTER, ViTSTR),      *)
(*   - the crop extraction helpers extract_crops / extract_rcrops,         *)
(*   - rotate_boxes / rotate_page and get_bitmap_angle,                    *)
(*   - the detection post-processor and the OCR predictor,                 *)
(*   - SAR inference, the greedy decoding and the masks of PARSeq,         *)
(*   - crop_detection and the framework selection of file_utils.           *)
(* Every component is a call/return machine: an operation is called with   *)
(* inputs drawn from bounded sets and its steps store their results; each  *)
(* component has its own specification, in which the others stay idle.     *)
(***************************************************************************)
EXTENDS Integers, Sequences, FiniteSets, TLC

VARIABLES recPc, arch, logits, preds,
          cropPc, cropOp, img, boxes, cropRet,
          rotPc, rotOp, rotArgs, rotRet, rotBack,
          angPc, angArgs, angRet,
          detPc, detOp, detArgs, detRet, detPreds,
          ocrPc, ocrArgs, ocrCrops, ocrWords, ocrPages,
          sarPc, sarArgs, sarOut, sarPreds,
          cdPc, cdArgs, cdImg, cdBoxes, cdErr,
          fuPc, fuEnv, fuInstalled, USE_TF, USE_TORCH, tf_available, torch_available, fuErr,
          psPc, psOp, psArgs, tgt_in, psI, psSteps, psEmbedded, psWritten, psMasks

recVars  == <<recPc, arch, logits, preds>>
cropVars == <<cropPc, cropOp, img, boxes, cropRet>>
rotVars  == <<rotPc, rotOp, rotArgs, rotRet, rotBack>>
angVars  == <<angPc, angArgs, angRet>>
detVars  == <<detPc, detOp, detArgs, detRet, detPreds>>
ocrVars  == <<ocrPc, ocrArgs, ocrCrops, ocrWords, ocrPages>>
sarVars == <<sarPc, sarArgs, sarOut, sarPreds>>
cdVars == <<cdPc, cdArgs, cdImg, cdBoxes, cdErr>>
fuVars == <<fuPc, fuEnv, fuInstalled, USE_TF, USE_TORCH, tf_available, torch_available, fuErr>>
psVars == <<psPc, psOp, psArgs, tgt_in, psI, psSteps, psEmbedded, psWritten, psMasks>>
vars     == <<recVars, cropVars, rotVars, angVars, detVars, ocrVars, sarVars, cdVars, fuVars, psVars>>

\* What the calls of one component leave alone: the other components.
notRecVars  == <<cropVars, rotVars, angVars, detVars, ocrVars, sarVars, cdVars, fuVars, psVars>>
notCropVars == <<recVars, rotVars, angVars, detVars, ocrVars, sarVars, cdVars, fuVars, psVars>>
notRotVars  == <<recVars, cropVars, angVars, detVars, ocrVars, sarVars, cdVars, fuVars, psVars>>
notAngVars  == <<recVars, cropVars, rotVars, detVars, ocrVars, sarVars, cdVars, fuVars, psVars>>
notDetVars  == <<recVars, cropVars, rotVars, angVars, ocrVars, sarVars, cdVars, fuVars, psVars>>
notOcrVars  == <<recVars, cropVars, rotVars, angVars, detVars, sarVars, cdVars, fuVars, psVars>>
notSarVars == <<recVars, cropVars, rotVars, angVars, detVars, ocrVars, cdVars, fuVars, psVars>>
notCdVars == <<recVars, cropVars, rotVars, angVars, detVars, ocrVars, sarVars, fuVars, psVars>>
notFuVars == <<recVars, cropVars, rotVars, angVars, detVars, ocrVars, sarVars, cdVars, psVars>>
notPsVars == <<recVars, cropVars, rotVars, angVars, detVars, ocrVars, sarVars, cdVars, fuVars>>

(***************************************************************************)
(* Bounds of the model.                                                    *)
(***************************************************************************)
\* Largest number of logits rows (batch size x timesteps) of a batch whose
\* rows are drawn freely (any class, strong or weak maximum).
MaxCells == 3
\* Largest max_length of a single sequence decoded with uniform confidence
\* and no end-of-sequence.
MaxLen == 5

(***************************************************************************)
(* Small arithmetic helpers.                                               *)
(***************************************************************************)
RECURSIVE Pow2(_)
Pow2(n) == IF n = 0 THEN 1 ELSE 2 * Pow2(n - 1)

\* Rationals are pairs <<numerator, denominator>> with a positive denominator.
RatLeq(p, q) == p[1] * q[2] <= q[1] * p[2]
RatLt(p, q)  == p[1] * q[2] <  q[1] * p[2]
RatEq(p, q)  == p[1] * q[2] =  q[1] * p[2]

RECURSIVE Gcd(_, _)
Gcd(a, b) == IF b = 0 THEN a ELSE Gcd(b, a % b)

Abs(n) == IF n < 0 THEN -n ELSE n

\* The rational n / d in lowest terms, with a positive denominator.
Rat(n, d) ==
    LET g == Gcd(Abs(n), Abs(d))
        s == IF d < 0 THEN -1 ELSE 1
    IN  <<(s * n) \div g, (s * d) \div g>>

\* Sums over the least common denominator and products of cross-reduced
\* factors, which keeps the intermediate integers small.
RatAdd(p, q) ==
    LET l == (p[2] \div Gcd(p[2], q[2])) * q[2]
    IN  Rat(p[1] * (l \div p[2]) + q[1] * (l \div q[2]), l)
RatSub(p, q) ==
    LET l == (p[2] \div Gcd(p[2], q[2])) * q[2]
    IN  Rat(p[1] * (l \div p[2]) - q[1] * (l \div q[2]), l)
RatMul(p, q) ==
    LET g == Gcd(Abs(p[1]), q[2])
        h == Gcd(Abs(q[1]), p[2])
    IN  Rat((p[1] \div g) * (q[1] \div h), (p[2] \div h) * (q[2] \div g))
RatInt(n)    == <<n, 1>>

\* int(x) of a rational: truncation towards zero.
Trunc(p) == IF p[1] >= 0 THEN p[1] \div p[2] ELSE -((-p[1]) \div p[2])

(***************************************************************************)
(* Recognition post-processing.                                            *)
(***************************************************************************)
\* The vocabulary the post-processor is built with.  The default vocabularies
\* of the library contain letters and punctuation, among them the five
\* characters below.
Vocab == <<"<", "e", "o", "s", ">">>

EOS_TOKEN == <<"<", "e", "o", "s", ">">>
SOS_TOKEN == <<"<", "s", "o", "s", ">">>
PAD_TOKEN == <<"<", "p", "a", "d", ">">>
NOT_VALID == <<"n", "o", "t", " ", "v", "a", "l", "i", "d">>

Archs == {"sar", "parseq", "master", "vitstr"}

\* Index of the end-of-sequence class: the vocabulary length.
EosIdx == Len(Vocab)

\* Number of classes of the logits handed to the post-processor.
NumClasses(a) == IF a = "vitstr" THEN Len(Vocab) + 3 ELSE Len(Vocab) + 1

\* self._embedding: one string per class index (index k is entry k + 1).
VocabTokens == [i \in 1..Len(Vocab) |-> <<Vocab[i]>>]
EmbeddingEos == VocabTokens \o <<EOS_TOKEN>>
EmbeddingEosSosPad == VocabTokens \o <<EOS_TOKEN, SOS_TOKEN, PAD_TOKEN>>
Embedding(a) == IF a \in {"parseq", "vitstr"} THEN EmbeddingEosSosPad ELSE EmbeddingEos

\* logits.argmax(-1) on one timestep: the first index holding the maximum.
RECURSIVE ArgMaxUpTo(_, _)
ArgMaxUpTo(row, n) ==
    IF n = 0 THEN 0
    ELSE LET k == ArgMaxUpTo(row, n - 1) IN IF row[n] > row[k] THEN n ELSE k

ArgMax(row) == ArgMaxUpTo(row, Cardinality(DOMAIN row) - 1)

RECURSIVE SumPow2(_, _)
SumPow2(row, n) == IF n < 0 THEN 0 ELSE Pow2(row[n]) + SumPow2(row, n - 1)

\* softmax(row)[k].  Logits are integer multiples of ln 2, so that the
\* exponentials are powers of two and the probability is an exact rational.
Softmax(row, k) == <<Pow2(row[k]), SumPow2(row, Cardinality(DOMAIN row) - 1)>>

\* gather(softmax(logits), argmax): the probability of the selected class at
\* every timestep of one sequence.
SelectedProbs(seq) == [t \in DOMAIN seq |-> Softmax(seq[t], ArgMax(seq[t]))]

\* Smallest entry of a non-empty sequence of rationals.
RECURSIVE RatMinUpTo(_, _)
RatMinUpTo(ps, n) ==
    IF n = 1 THEN ps[1]
    ELSE LET m == RatMinUpTo(ps, n - 1)
             p == ps[n]
         IN  IF RatLt(p, m) THEN p ELSE m

RatMin(ps) == RatMinUpTo(ps, Len(ps))

\* A plausible slip: the minimum taken over the whole batch instead of per row.
MinConfidenceWholeBatch(probs) ==
    LET flat == [n \in 1..(Len(probs) * Len(probs[1])) |->
                    probs[((n - 1) \div Len(probs[1])) + 1][((n - 1) % Len(probs[1])) + 1]]
    IN  [i \in DOMAIN probs |-> RatMin(flat)]

\* probs.min(dim=1) / tf.math.reduce_min(probs, axis=1).
MinConfidence(probs) == [i \in DOMAIN probs |-> RatMin(probs[i])]

RECURSIVE Join(_)
\* ''.join(...) / tf.strings.reduce_join: concatenation of the token strings.
Join(tokens) == IF tokens = <<>> THEN <<>> ELSE Head(tokens) \o Join(Tail(tokens))

\* First position at which sep occurs in s, 0 when it does not occur.
Find(s, sep) ==
    LET hits == {i \in 1..(Len(s) - Len(sep) + 1) : SubSeq(s, i, i + Len(sep) - 1) = sep}
    IN  IF hits = {} THEN 0 ELSE CHOOSE i \in hits : \A j \in hits : i <= j

RECURSIVE PySplit(_, _)
\* str.split(sep): the list of the pieces between the occurrences of sep.
PySplit(s, sep) ==
    LET i == Find(s, sep)
    IN  IF i = 0 THEN <<s>>
        ELSE <<SubSeq(s, 1, i - 1)>> \o PySplit(SubSeq(s, i + Len(sep), Len(s)), sep)

\* A plausible slip: tf.strings.split dropping the empty pieces, as it does
\* when no separator is given.
TfSplitNoEmptyPieces(s, sep) == SelectSeq(PySplit(s, sep), LAMBDA piece : piece # <<>>)

\* tf.strings.split(s, sep): as str.split, but the empty string has no piece.
TfSplit(s, sep) == IF s = <<>> THEN <<>> ELSE PySplit(s, sep)

\* tf.sparse.to_dense(ragged.to_sparse(), default_value)[:, 0]: rows padded
\* with the default value, first column.
DenseFirstColumn(ragged, default) ==
    [i \in DOMAIN ragged |-> IF Len(ragged[i]) >= 1 THEN ragged[i][1] ELSE default]

\* The decoded token strings of one sequence of class indices.
Tokens(a, idxs) == [t \in DOMAIN idxs |-> Embedding(a)[idxs[t] + 1]]

OutIdxs(batch) == [i \in DOMAIN batch |-> [t \in DOMAIN batch[i] |-> ArgMax(batch[i][t])]]

\* A plausible slip: the confidence taken over the timesteps kept in the word
\* and the end-of-sequence timestep only.
TruncatedProbs(batch) ==
    [i \in DOMAIN batch |->
        LET idxs == OutIdxs(batch)[i]
            eos  == {t \in 1..Len(idxs) : idxs[t] = EosIdx}
            last == IF eos = {} THEN Len(idxs) ELSE CHOOSE t \in eos : \A u \in eos : t <= u
        IN  SubSeq(SelectedProbs(batch[i]), 1, last)]

\* N x L probabilities of the selected classes.
BatchProbs(batch) == [i \in DOMAIN batch |-> SelectedProbs(batch[i])]

\* zip(word_values, probs).
Zip(words, probs) == [i \in DOMAIN words |-> <<words[i], probs[i]>>]

\* SARPostProcessor.__call__ and PARSeqPostProcessor.__call__ (PyTorch).
TorchPostProcessor(a, batch) ==
    LET out_idxs    == OutIdxs(batch)
        probs       == MinConfidence(BatchProbs(batch))
        word_values == [i \in DOMAIN batch |->
                           PySplit(Join(Tokens(a, out_idxs[i])), EOS_TOKEN)[1]]
    IN  Zip(word_values, probs)

\* MASTERPostProcessor.__call__ and ViTSTRPostProcessor.__call__ (TensorFlow).
TfPostProcessor(a, batch) ==
    LET out_idxs    == OutIdxs(batch)
        probs       == MinConfidence(BatchProbs(batch))
        joined      == [i \in DOMAIN batch |-> Join(Tokens(a, out_idxs[i]))]
        ragged      == [i \in DOMAIN batch |-> TfSplit(joined[i], EOS_TOKEN)]
        word_values == DenseFirstColumn(ragged, NOT_VALID)
    IN  Zip(word_values, probs)

SARPostProcessor(batch)    == TorchPostProcessor("sar", batch)
PARSeqPostProcessor(batch) == TorchPostProcessor("parseq", batch)
MASTERPostProcessor(batch) == TfPostProcessor("master", batch)
ViTSTRPostProcessor(batch) == TfPostProcessor("vitstr", batch)

PostProcess(a, batch) ==
    CASE a = "sar"    -> SARPostProcessor(batch)
      [] a = "parseq" -> PARSeqPostProcessor(batch)
      [] a = "master" -> MASTERPostProcessor(batch)
      [] a = "vitstr" -> ViTSTRPostProcessor(batch)

(***************************************************************************)
(* The logits the recognition models hand to their post-processor.         *)
(***************************************************************************)
\* Logit of the selected class of a hesitant / of a confident timestep, in
\* units of ln 2; the other classes have logit 0.
LogitLevels == {1, 2}
LowLogit  == CHOOSE m \in LogitLevels : \A n \in LogitLevels : m <= n
HighLogit == CHOOSE m \in LogitLevels : \A n \in LogitLevels : n <= m

\* One timestep: class k selected with logit m.
Row(a, k, m) == [c \in 0..(NumClasses(a) - 1) |-> IF c = k THEN m ELSE 0]

\* The classes selected in freely drawn rows: the first character of the
\* vocabulary, end-of-sequence, and the special classes after it, if any.
FreeClasses(a) == {0} \cup (EosIdx..(NumClasses(a) - 1))

FreeRows(a) == {Row(a, k, m) : k \in FreeClasses(a), m \in {LowLogit, HighLogit}}
\* A confident timestep selecting a character of the vocabulary.
ConfidentRows(a) == {Row(a, k, HighLogit) : k \in 0..(EosIdx - 1)}

\* Batches of B sequences of L timesteps with B * L <= MaxCells, any rows.
FreeBatches(a) ==
    UNION {[1..B -> [1..L -> FreeRows(a)]] :
              <<B, L>> \in {bl \in (1..MaxCells) \X (1..MaxCells) : bl[1] * bl[2] <= MaxCells}}

\* One sequence of up to MaxLen confident timesteps without end-of-sequence
\* (the length cap is reached).
LongBatches(a) == UNION {[1..1 -> [1..L -> ConfidentRows(a)]] : L \in 1..MaxLen}

RecInit ==
    /\ recPc = "idle"
    /\ arch = "none"
    /\ logits = <<>>
    /\ preds = <<>>

\* The recognition model, a black box, has produced the logits of a batch
\* drawn freely.
ForwardBatch ==
    /\ recPc = "idle"
    /\ \E a \in Archs : \E batch \in FreeBatches(a) :
          /\ arch' = a
          /\ logits' = batch
    /\ recPc' = "decoded"
    /\ UNCHANGED <<preds, notRecVars>>

\* The recognition model has produced the logits of one long, confidently
\* decoded sequence.
ForwardWord ==
    /\ recPc = "idle"
    /\ \E a \in Archs : \E batch \in LongBatches(a) :
          /\ arch' = a
          /\ logits' = batch
    /\ recPc' = "decoded"
    /\ UNCHANGED <<preds, notRecVars>>

\* out["preds"] = self.postprocessor(decoded_features)
CallPostProcessor ==
    /\ recPc = "decoded"
    /\ preds' = PostProcess(arch, logits)
    /\ recPc' = "done"
    /\ UNCHANGED <<arch, logits, notRecVars>>

RecReturn ==
    /\ recPc = "done"
    /\ recPc' = "idle"
    /\ arch' = "none"
    /\ logits' = <<>>
    /\ preds' = <<>>
    /\ UNCHANGED notRecVars

RecNext == ForwardBatch \/ ForwardWord \/ CallPostProcessor \/ RecReturn

(***************************************************************************)
(* Crop extraction: extract_crops and extract_rcrops.                      *)
(***************************************************************************)
\* Largest height and width of an image.
MaxDim == 3
\* Largest number of boxes of a call.
MaxBoxes == 3

\* An image of H rows and W columns; every pixel holds its flat index, so
\* that two slices are equal only if they cover the same pixels.
Image(H, W) == [h |-> H, w |-> W,
                px |-> [r \in 1..H |-> [c \in 1..W |-> (r - 1) * W + (c - 1)]]]

Images == {Image(H, W) : H \in 1..MaxDim, W \in 1..MaxDim}

\* A boxes array: shape (n, k), dtype, and its rows of rational entries.
Array(n, k, dtype, rows) == [n |-> n, k |-> k, dtype |-> dtype, rows |-> rows]

\* np.zeros((n, k))
Zeros(n, k) == Array(n, k, "float", [i \in 1..n |-> [j \in 1..k |-> RatInt(0)]])

\* np.round of a non-negative rational, then astype(int): to the nearest
\* integer, halves to the even neighbour.
Round(p) ==
    LET q == p[1] \div p[2]
        r == p[1] % p[2]
    IN  IF 2 * r < p[2] THEN q
        ELSE IF 2 * r > p[2] THEN q + 1
        ELSE IF q % 2 = 0 THEN q ELSE q + 1

\* A plausible slip: the x columns scaled by the height and the y columns by
\* the width.
ProjectSwapped(im, rows) ==
    [i \in DOMAIN rows |->
        [j \in DOMAIN rows[i] |->
            IF j \in {1, 3} THEN RatMul(rows[i][j], RatInt(im.h))
            ELSE IF j \in {2, 4} THEN RatMul(rows[i][j], RatInt(im.w))
            ELSE rows[i][j]]]

\* _boxes[:, [0, 2]] *= img.shape[1]; _boxes[:, [1, 3]] *= img.shape[0]
Project(im, rows) ==
    [i \in DOMAIN rows |->
        [j \in DOMAIN rows[i] |->
            IF j \in {1, 3} THEN RatMul(rows[i][j], RatInt(im.w))
            ELSE IF j \in {2, 4} THEN RatMul(rows[i][j], RatInt(im.h))
            ELSE rows[i][j]]]

\* _boxes.round().astype(int)
RoundRows(rows) == [i \in DOMAIN rows |-> [j \in DOMAIN rows[i] |-> Round(rows[i][j])]]

\* _boxes[2:] += 1: one is added to every entry of the rows of index 2 and
\* above (0-based), the rows of index 0 and 1 are left alone.
AddLastIndex(rows) ==
    [i \in DOMAIN rows |->
        IF i - 1 >= 2 THEN [j \in DOMAIN rows[i] |-> rows[i][j] + 1] ELSE rows[i]]

Min(a, b) == IF a < b THEN a ELSE b
Max(a, b) == IF a > b THEN a ELSE b

\* img[r0:r1, c0:c1] for non-negative bounds: bounds beyond the image are
\* clipped, an empty range gives an empty axis.
Slice(im, r0, r1, c0, c1) ==
    LET rlo == Min(r0, im.h)
        clo == Min(c0, im.w)
        nr  == Max(Min(r1, im.h) - rlo, 0)
        nc  == Max(Min(c1, im.w) - clo, 0)
    IN  [h |-> nr, w |-> nc,
         px |-> [r \in 1..nr |-> [c \in 1..nc |-> im.px[rlo + r][clo + c]]]]

\* The integer pixel boxes extract_crops slices with.
PixelBoxes(im, b) ==
    IF b.dtype # "int"
    THEN AddLastIndex(RoundRows(Project(im, b.rows)))
    ELSE [i \in 1..b.n |-> [j \in 1..b.k |-> Trunc(b.rows[i][j])]]

\* A plausible slip: zero boxes rejected instead of answered with no crop.
extract_crops_raise_on_empty(im, b) ==
    IF b.n = 0 \/ b.k # 4
    THEN [status |-> "AssertionError", crops |-> <<>>, steps |-> <<"raise">>]
    ELSE LET _boxes == PixelBoxes(im, b)
         IN  [status |-> "ok",
              crops  |-> [i \in 1..b.n |->
                            Slice(im, _boxes[i][2], _boxes[i][4], _boxes[i][1], _boxes[i][3])],
              steps  |-> <<"project", "slice">>]

\* A plausible slip: only arrays with fewer than 4 columns rejected.
extract_crops_lax_check(im, b) ==
    IF b.n = 0 THEN [status |-> "ok", crops |-> <<>>, steps |-> <<"return_empty">>]
    ELSE IF b.k < 4
    THEN [status |-> "AssertionError", crops |-> <<>>, steps |-> <<"raise">>]
    ELSE LET _boxes == PixelBoxes(im, b)
         IN  [status |-> "ok",
              crops  |-> [i \in 1..b.n |->
                            Slice(im, _boxes[i][2], _boxes[i][4], _boxes[i][1], _boxes[i][3])],
              steps  |-> <<"project", "slice">>]

\* extract_crops(img, boxes): the returned list, or the error raised, and the
\* steps taken.
extract_crops(im, b) ==
    IF b.n = 0 THEN [status |-> "ok", crops |-> <<>>, steps |-> <<"return_empty">>]
    ELSE IF b.k # 4
    THEN [status |-> "AssertionError", crops |-> <<>>, steps |-> <<"raise">>]
    ELSE LET _boxes == PixelBoxes(im, b)
         IN  [status |-> "ok",
              crops  |-> [i \in 1..b.n |->
                            Slice(im, _boxes[i][2], _boxes[i][4], _boxes[i][1], _boxes[i][3])],
              steps  |-> <<"project", "slice">>]

RECURSIVE SumCol(_, _, _)
\* np.sum(rows[:, j]) over the first n rows.
SumCol(rows, j, n) == IF n = 0 THEN RatInt(0) ELSE RatAdd(SumCol(rows, j, n - 1), rows[n][j])

\* A plausible slip: the direction chosen box by box.
ClockwisePerBox(rows, i) == RatLt(rows[i][4], rows[i][3])

\* clockwise, as used for box i: np.sum(boxes[:, 2]) > np.sum(boxes[:, 3]) on
\* the boxes as passed; the same for every box of the call.
Clockwise(rows, i) == RatLt(SumCol(rows, 4, Len(rows)), SumCol(rows, 3, Len(rows)))

\* The rows extract_rcrops warps with.
RotatedPixelBoxes(im, b) == IF b.dtype # "int" THEN Project(im, b.rows) ELSE b.rows

\* The crop of one rotated box: cv2.warpAffine(img, M, dsize) has dsize[1]
\* rows and dsize[0] columns; M maps three corners of the rotated rectangle
\* to dst_pts.
RotatedCrop(box, clockwise) ==
    LET w == box[3]
        h == box[4]
        w1 == RatSub(w, RatInt(1))
        h1 == RatSub(h, RatInt(1))
        zero == RatInt(0)
    IN  IF clockwise
        THEN [h |-> Trunc(h), w |-> Trunc(w),
              rect |-> box,
              dst_pts |-> <<<<zero, zero>>, <<w1, zero>>, <<w1, h1>>>>]
        ELSE [h |-> Trunc(w), w |-> Trunc(h),
              rect |-> box,
              dst_pts |-> <<<<h1, zero>>, <<h1, w1>>, <<zero, w1>>>>]

\* extract_rcrops(img, boxes).
extract_rcrops(im, b) ==
    IF b.n = 0 THEN [status |-> "ok", crops |-> <<>>, steps |-> <<"return_empty">>]
    ELSE IF b.k # 5
    THEN [status |-> "AssertionError", crops |-> <<>>, steps |-> <<"raise">>]
    ELSE LET _boxes == RotatedPixelBoxes(im, b)
         IN  [status |-> "ok",
              crops  |-> [i \in 1..b.n |-> RotatedCrop(_boxes[i], Clockwise(b.rows, i))],
              steps  |-> <<"project", "warp">>]

(***************************************************************************)
(* The inputs of the crop extraction calls.                                *)
(***************************************************************************)
\* Relative coordinates: 0, 1/2 and 1.
RelCoords == {<<0, 1>>, <<1, 2>>, <<1, 1>>}

\* Relative straight boxes (xmin, ymin, xmax, ymax) with xmin < xmax and
\* ymin < ymax.
StraightBoxes ==
    {<<x0, y0, x1, y1>> : x0 \in RelCoords, y0 \in RelCoords, x1 \in RelCoords, y1 \in RelCoords}
        \ {b \in RelCoords \X RelCoords \X RelCoords \X RelCoords :
               ~RatLt(b[1], b[3]) \/ ~RatLt(b[2], b[4])}

\* Absolute straight boxes of an integer array.
AbsStraightBoxes == {<<RatInt(0), RatInt(0), RatInt(1), RatInt(1)>>,
                     <<RatInt(0), RatInt(1), RatInt(2), RatInt(2)>>}

\* Column counts of the arrays passed.
ColCounts == {3, 4, 5, 6, 8}

StraightArrays ==
    UNION {{Array(n, 4, "float", rows) : rows \in [1..n -> StraightBoxes]} : n \in 0..MaxBoxes}
    \cup UNION {{Array(n, 4, "int", rows) : rows \in [1..n -> AbsStraightBoxes]} : n \in 1..MaxBoxes}

ZeroArrays == {Zeros(n, k) : n \in 0..2, k \in ColCounts}

\* Relative rotated boxes (x, y, w, h, alpha) centred on the page.
RotatedBoxes ==
    {<<<<1, 2>>, <<1, 2>>, w, h, alpha>> :
        w \in {<<1, 2>>, <<1, 1>>}, h \in {<<1, 2>>, <<1, 1>>}, alpha \in {RatInt(0), RatInt(-30)}}

\* Absolute rotated boxes of an integer array.
AbsRotatedBoxes == {<<RatInt(1), RatInt(1), RatInt(1), RatInt(2), RatInt(0)>>,
                    <<RatInt(1), RatInt(1), RatInt(2), RatInt(1), RatInt(0)>>}

RotatedArrays ==
    UNION {{Array(n, 5, "float", rows) : rows \in [1..n -> RotatedBoxes]} : n \in 0..MaxBoxes}
    \cup UNION {{Array(n, 5, "int", rows) : rows \in [1..n -> AbsRotatedBoxes]} : n \in 1..MaxBoxes}

\* Every box of the array is at least one pixel wide and high on the image,
\* so that the size passed to cv2.warpAffine is not empty.
WarpSizesNotEmpty(im, b) ==
    b.k = 5 => \A i \in 1..b.n :
                  /\ Trunc(RotatedPixelBoxes(im, b)[i][3]) >= 1
                  /\ Trunc(RotatedPixelBoxes(im, b)[i][4]) >= 1

\* A call is about to be made with an image and a boxes array.
CropInit ==
    /\ cropPc = "called"
    /\ img \in Images
    /\ \/ cropOp = "extract_crops" /\ boxes \in StraightArrays \cup ZeroArrays
       \/ /\ cropOp = "extract_rcrops"
          /\ boxes \in RotatedArrays \cup ZeroArrays
          /\ WarpSizesNotEmpty(img, boxes)
    /\ cropRet = <<>>

ExtractCrops ==
    /\ cropPc = "called"
    /\ cropOp = "extract_crops"
    /\ cropRet' = extract_crops(img, boxes)
    /\ cropPc' = "done"
    /\ UNCHANGED <<cropOp, img, boxes, notCropVars>>

ExtractRcrops ==
    /\ cropPc = "called"
    /\ cropOp = "extract_rcrops"
    /\ cropRet' = extract_rcrops(img, boxes)
    /\ cropPc' = "done"
    /\ UNCHANGED <<cropOp, img, boxes, notCropVars>>

CropNext == ExtractCrops \/ ExtractRcrops

(***************************************************************************)
(* Page and box rotation: rotate_page and rotate_boxes.                    *)
(***************************************************************************)
\* Angles in degrees, as rationals, with np.cos and np.sin of the angle to
\* four decimals (exact for 0, 30, 60, 90 and for the two angles of the
\* 3-4-5 triangle, 36.87 and 53.13 degrees to two decimals).
TrigTable ==
    {<<<<0, 1>>,       <<1, 1>>,         <<0, 1>>>>,
     <<<<1, 2>>,       <<9999, 10000>>,  <<87, 10000>>>>,
     <<<<1, 1>>,       <<9998, 10000>>,  <<175, 10000>>>>,
     <<<<3, 2>>,       <<9997, 10000>>,  <<262, 10000>>>>,
     <<<<30, 1>>,      <<8660, 10000>>,  <<1, 2>>>>,
     <<<<3687, 100>>,  <<4, 5>>,         <<3, 5>>>>,
     <<<<45, 1>>,      <<7071, 10000>>,  <<7071, 10000>>>>,
     <<<<5313, 100>>,  <<3, 5>>,         <<4, 5>>>>,
     <<<<60, 1>>,      <<1, 2>>,         <<8660, 10000>>>>,
     <<<<177, 2>>,     <<262, 10000>>,   <<9997, 10000>>>>,
     <<<<89, 1>>,      <<175, 10000>>,   <<9998, 10000>>>>,
     <<<<179, 2>>,     <<87, 10000>>,    <<9999, 10000>>>>,
     <<<<90, 1>>,      <<0, 1>>,         <<1, 1>>>>}

RatNeg(p) == <<-p[1], p[2]>>
RatAbs(p) == <<Abs(p[1]), p[2]>>

\* The angles passed to the rotation functions.
Angles == {e[1] : e \in TrigTable} \cup {RatNeg(e[1]) : e \in TrigTable}

\* np.cos(angle * np.pi / 180.) and np.sin(angle * np.pi / 180.)
Cos(angle) == Rat((CHOOSE e \in TrigTable : e[1] = RatAbs(angle))[2][1],
                  (CHOOSE e \in TrigTable : e[1] = RatAbs(angle))[2][2])
Sin(angle) ==
    LET s == (CHOOSE e \in TrigTable : e[1] = RatAbs(angle))[3]
    IN  IF angle[1] < 0 THEN Rat(-s[1], s[2]) ELSE Rat(s[1], s[2])

\* The angles whose cosine and sine are exact in the table: cos^2 + sin^2 = 1.
ExactAngle(angle) ==
    LET c == Cos(angle)
        s == Sin(angle)
    IN  /\ c[2] <= 5
        /\ s[2] <= 5
        /\ c[1] * c[1] * s[2] * s[2] + s[1] * s[1] * c[2] * c[2] = c[2] * c[2] * s[2] * s[2]

\* The values of min_angle: 1.0 is the default.
MinAngles == {<<0, 1>>, <<1, 2>>, <<1, 1>>, <<45, 1>>, <<60, 1>>}

\* A plausible slip: the boundary angles left unrotated as well.
NoRotationInclusive(angle, min_angle) ==
    \/ RatLeq(RatAbs(angle), min_angle)
    \/ RatLeq(RatSub(RatInt(90), min_angle), RatAbs(angle))

\* abs(angle) < min_angle or abs(angle) > 90 - min_angle
NoRotation(angle, min_angle) ==
    \/ RatLt(RatAbs(angle), min_angle)
    \/ RatLt(RatSub(RatInt(90), min_angle), RatAbs(angle))

Half == <<1, 2>>

\* A plausible slip: the centres rotated about the origin of the page, the
\* offset .5 forgotten.
RotatedBoxAboutOrigin(box, angle) ==
    LET x_unrotated == RatMul(RatAdd(box[1], box[3]), Half)
        y_unrotated == RatMul(RatAdd(box[2], box[4]), Half)
        width  == RatSub(box[3], box[1])
        height == RatSub(box[4], box[2])
        x_center == RatSub(RatMul(x_unrotated, Cos(angle)), RatMul(y_unrotated, Sin(angle)))
        y_center == RatAdd(RatMul(x_unrotated, Sin(angle)), RatMul(y_unrotated, Cos(angle)))
    IN  <<x_center, y_center, width, height, angle>>

\* Row i of the (N, 5) array of rotated boxes: the centre of the straight box
\* rotated about (0.5, 0.5), its width and height, and the angle.
RotatedBox(box, angle) ==
    LET x_unrotated == RatMul(RatAdd(box[1], box[3]), Half)
        y_unrotated == RatMul(RatAdd(box[2], box[4]), Half)
        width  == RatSub(box[3], box[1])
        height == RatSub(box[4], box[2])
        dx == RatSub(x_unrotated, Half)
        dy == RatSub(y_unrotated, Half)
        x_center == RatAdd(Half, RatSub(RatMul(dx, Cos(angle)), RatMul(dy, Sin(angle))))
        y_center == RatAdd(Half, RatAdd(RatMul(dx, Sin(angle)), RatMul(dy, Cos(angle))))
    IN  <<x_center, y_center, width, height, angle>>

\* rotate_boxes(boxes, angle, min_angle): the object returned, and whether
\* it is a newly built array of rotated boxes.
rotate_boxes(b, angle, min_angle) ==
    IF NoRotation(angle, min_angle)
    THEN [rotated |-> FALSE, out |-> b]
    ELSE [rotated |-> TRUE,
          out |-> Array(b.n, 5, "float", [i \in 1..b.n |-> RotatedBox(b.rows[i], angle)])]

\* cv2.getRotationMatrix2D(center, angle, scale), center being (x, y): the
\* 2 x 3 matrix  [ a  b  (1 - a) * x - b * y ]
\*               [-b  a  b * x + (1 - a) * y ]
\* with a = scale * cos(angle) and b = scale * sin(angle).
getRotationMatrix2D(center, angle, scale) ==
    LET a == RatMul(scale, Cos(angle))
        b == RatMul(scale, Sin(angle))
        x == center[1]
        y == center[2]
        one_a == RatSub(RatInt(1), a)
    IN  <<<<a, b, RatSub(RatMul(one_a, x), RatMul(b, y))>>,
          <<RatNeg(b), a, RatAdd(RatMul(b, x), RatMul(one_a, y))>>>>

\* cv2.warpAffine(src, M, dsize) without WARP_INVERSE_MAP: the content of
\* src at the position p = (x, y) is drawn at the position M * (x, y, 1).
WarpAffinePoint(M, p) ==
    <<RatAdd(RatAdd(RatMul(M[1][1], p[1]), RatMul(M[1][2], p[2])), M[1][3]),
      RatAdd(RatAdd(RatMul(M[2][1], p[1]), RatMul(M[2][2], p[2])), M[2][3])>>

\* rotate_page(image, angle, min_angle): the object returned; a rotated page
\* is cv2.warpAffine(image, cv2.getRotationMatrix2D(center, angle, 1.0),
\* (width, height)) with center = (height / 2, width / 2).
rotate_page(im, angle, min_angle) ==
    IF NoRotation(angle, min_angle)
    THEN [rotated |-> FALSE, out |-> im]
    ELSE [rotated |-> TRUE,
          out |-> [src    |-> im,
                   center |-> <<Rat(im.h, 2), Rat(im.w, 2)>>,
                   rot_mat |-> getRotationMatrix2D(<<Rat(im.h, 2), Rat(im.w, 2)>>, angle, RatInt(1)),
                   angle  |-> angle,
                   scale  |-> RatInt(1),
                   dsize  |-> <<im.w, im.h>>]]

\* Straight boxes of a page: the top-left quarter, the centred half-size box
\* and the right half.
PageBoxes == {<<<<0, 1>>, <<0, 1>>, <<1, 2>>, <<1, 2>>>>,
              <<<<1, 4>>, <<1, 4>>, <<3, 4>>, <<3, 4>>>>,
              <<<<1, 2>>, <<0, 1>>, <<1, 1>>, <<1, 1>>>>}

PageArrays ==
    UNION {{Array(n, 4, "float", rows) : rows \in [1..n -> PageBoxes]} : n \in 0..MaxBoxes}

\* A call is about to be made with boxes or an image, an angle and min_angle.
RotInit ==
    /\ rotPc = "called"
    /\ \/ rotOp = "rotate_boxes" /\ rotArgs \in [obj : PageArrays, angle : Angles, min_angle : MinAngles]
       \/ rotOp = "rotate_page"  /\ rotArgs \in [obj : Images, angle : Angles, min_angle : MinAngles]
    /\ rotRet = <<>>
    /\ rotBack = <<>>

RotateBoxes ==
    /\ rotPc = "called"
    /\ rotOp = "rotate_boxes"
    /\ rotRet' = rotate_boxes(rotArgs.obj, rotArgs.angle, rotArgs.min_angle)
    /\ rotPc' = "done"
    /\ UNCHANGED <<rotOp, rotArgs, rotBack, notRotVars>>

RotatePage ==
    /\ rotPc = "called"
    /\ rotOp = "rotate_page"
    /\ rotRet' = rotate_page(rotArgs.obj, rotArgs.angle, rotArgs.min_angle)
    /\ rotPc' = "done"
    /\ UNCHANGED <<rotOp, rotArgs, rotBack, notRotVars>>

\* The inverse rotation applied to the boxes a first call has rotated:
\* rotate_boxes(rotate_boxes(boxes, angle, min_angle), -angle, min_angle).
\* The round trip is made for the angles with an exact cosine and sine.
RotateBoxesBack ==
    /\ rotPc = "done"
    /\ rotOp = "rotate_boxes"
    /\ rotRet.rotated = TRUE
    /\ ExactAngle(rotArgs.angle)
    /\ rotBack' = rotate_boxes(rotRet.out, RatNeg(rotArgs.angle), rotArgs.min_angle)
    /\ rotPc' = "back"
    /\ UNCHANGED <<rotOp, rotArgs, rotRet, notRotVars>>

RotNext == RotateBoxes \/ RotatePage \/ RotateBoxesBack

(***************************************************************************)
(* Page angle estimation: get_bitmap_angle.                                *)
(***************************************************************************)
\* Largest number of contours cv2.findContours returns for a bitmap.
MaxContours == 3

\* The value numpy gives to the mean and the standard deviation of no value:
\* nan, written as the quotient 0 / 0.
NaN == <<0, 0>>

\* What cv2 says of a contour: its area (cv2.contourArea) and the width,
\* height and angle of its min-area rectangle (cv2.minAreaRect).
Contours == [area : {1, 2}, size : {<<2, 1>>, <<1, 2>>}, alpha : {-90, -6, 0}]

\* sorted(contours, key=cv2.contourArea, reverse=True): a stable sort, the
\* contours of equal area keep their order.
RECURSIVE SortedByArea(_)
SortedByArea(cts) ==
    IF cts = <<>> THEN <<>>
    ELSE LET front == SortedByArea(SubSeq(cts, 1, Len(cts) - 1))
             last  == cts[Len(cts)]
             keep  == Cardinality({i \in 1..Len(front) : front[i].area >= last.area})
         IN  SubSeq(front, 1, keep) \o <<last>> \o SubSeq(front, keep + 1, Len(front))

\* contours[:n_ct]
FirstContours(cts, n_ct) == SubSeq(cts, 1, Min(n_ct, Len(cts)))

RECURSIVE SumOf(_)
SumOf(vals) == IF vals = <<>> THEN 0 ELSE vals[1] + SumOf(Tail(vals))

\* np.mean(angles)
Mean(vals) == IF vals = <<>> THEN NaN ELSE Rat(SumOf(vals), Len(vals))

\* np.std(angles) ** 2: the mean of the squared deviations from the mean.
Variance(vals) ==
    IF vals = <<>> THEN NaN
    ELSE LET m == Mean(vals)
             d == [i \in 1..Len(vals) |-> RatSub(RatInt(vals[i]), m)]
             RECURSIVE SumSq(_)
             SumSq(n) == IF n = 0 THEN RatInt(0) ELSE RatAdd(SumSq(n - 1), RatMul(d[n], d[n]))
         IN  RatMul(SumSq(Len(vals)), <<1, Len(vals)>>)

\* np.std(angles) > std_max; a comparison with nan is False.
StdExceeds(vals, std_max) ==
    /\ Variance(vals) # NaN
    /\ \/ std_max[1] < 0
       \/ RatLt(RatMul(std_max, std_max), Variance(vals))

\* A plausible slip: equal sums taken as counter-clockwise too.
WidthsNotLarger(widths, heights) == SumOf(widths) <= SumOf(heights)

\* np.sum(widths) < np.sum(heights)
WidthsSmaller(widths, heights) == SumOf(widths) < SumOf(heights)

\* get_bitmap_angle(bitmap, n_ct, std_max), given the contours
\* cv2.findContours has found in the bitmap.
get_bitmap_angle(found, n_ct, std_max) ==
    LET contours == FirstContours(SortedByArea(found), n_ct)
        widths  == [i \in 1..Len(contours) |-> contours[i].size[1]]
        heights == [i \in 1..Len(contours) |-> contours[i].size[2]]
        angles  == [i \in 1..Len(contours) |-> contours[i].alpha]
        mean    == Mean(angles)
        angle   == IF mean = NaN THEN NaN ELSE RatNeg(mean)
    IN  IF StdExceeds(angles, std_max)
        THEN RatInt(0)
        ELSE IF WidthsSmaller(widths, heights)
             THEN (IF angle = NaN THEN NaN ELSE RatAdd(RatInt(90), angle))
             ELSE angle

\* The contours of the bitmaps: none for an all-zero bitmap, up to
\* MaxContours otherwise.
ContourLists == UNION {[1..n -> Contours] : n \in 0..MaxContours}

\* 20 is the default of n_ct, 3. the default of std_max.
NCts == {1, 2, 20}
StdMaxs == {RatInt(0), RatInt(3)}

AngInit ==
    /\ angPc = "called"
    /\ angArgs \in [contours : ContourLists, n_ct : NCts, std_max : StdMaxs]
    /\ angRet = <<>>

GetBitmapAngle ==
    /\ angPc = "called"
    /\ angRet' = get_bitmap_angle(angArgs.contours, angArgs.n_ct, angArgs.std_max)
    /\ angPc' = "done"
    /\ UNCHANGED <<angArgs, notAngVars>>

AngNext == GetBitmapAngle

(***************************************************************************)
(* Detection post-processing: polygon_to_box, the post-processor's call    *)
(* and the 'preds' the detection models build from it.                     *)
(***************************************************************************)
\* Largest number of probability maps of a batch, and largest number of
\* contours found in the maps of a batch.
MaxMaps == 2
MaxRegions == 2

\* Width and height of a probability map, in pixels.
MapSide == 2

\* The score cutoff of the post-processor: box_thresh=0.1.
box_thresh == <<1, 10>>

\* A contour found in a binarized map: the extent of its points, their
\* number, the area they enclose, the mean of the probability map inside
\* (its score), and the number of polygons its offset expansion yields.
\* A square and a triangle of the map, a line and a single point.
ContourShapes ==
    {[xmin |-> 0, ymin |-> 0, xmax |-> 1, ymax |-> 1, points |-> 4, area |-> <<1, 1>>],
     [xmin |-> 0, ymin |-> 0, xmax |-> 1, ymax |-> 1, points |-> 3, area |-> <<1, 2>>],
     [xmin |-> 0, ymin |-> 0, xmax |-> 1, ymax |-> 0, points |-> 2, area |-> <<0, 1>>],
     [xmin |-> 1, ymin |-> 1, xmax |-> 1, ymax |-> 1, points |-> 1, area |-> <<0, 1>>]}

MapContours ==
    {[shape |-> sh, score |-> sc, expanded |-> e] :
        sh \in ContourShapes, sc \in {<<1, 20>>, <<1, 2>>}, e \in {1, 2}}

\* The bounding rectangle of the points of a contour, as a straight box and
\* as an upright rotated box.
BoundingBox(c) ==
    <<RatInt(c.shape.xmin), RatInt(c.shape.ymin), RatInt(c.shape.xmax), RatInt(c.shape.ymax)>>
BoundingRect(c) ==
    <<Rat(c.shape.xmin + c.shape.xmax, 2), Rat(c.shape.ymin + c.shape.ymax, 2),
      RatInt(c.shape.xmax - c.shape.xmin), RatInt(c.shape.ymax - c.shape.ymin), RatInt(0)>>

\* The min-area rectangle of the contour expanded outwards, by one pixel on
\* every side here.
ExpandedRect(c) ==
    <<BoundingRect(c)[1], BoundingRect(c)[2],
      RatAdd(BoundingRect(c)[3], RatInt(2)), RatAdd(BoundingRect(c)[4], RatInt(2)), RatInt(0)>>

\* A plausible slip: no fallback, the expansion into several polygons raises.
polygon_to_box_no_fallback(c, assume_straight_pages) ==
    IF assume_straight_pages
    THEN [status |-> "ok", box |-> BoundingBox(c)]
    ELSE IF c.expanded # 1
         THEN [status |-> "raised", box |-> <<>>]
         ELSE [status |-> "ok", box |-> ExpandedRect(c)]

\* polygon_to_box(points): the bounding box for straight pages; for rotated
\* pages the rectangle of the expanded polygon, and the bounding rectangle of
\* the un-expanded points when the contour is degenerate or its expansion
\* yields more than one polygon.
polygon_to_box(c, assume_straight_pages) ==
    IF assume_straight_pages
    THEN [status |-> "ok", box |-> BoundingBox(c)]
    ELSE IF c.shape.area = RatInt(0) \/ c.expanded # 1
         THEN [status |-> "ok", box |-> BoundingRect(c)]
         ELSE [status |-> "ok", box |-> ExpandedRect(c)]

\* A plausible slip: the degenerate contours are not filtered out.
DegenerateNever(c) == FALSE

\* The contours filtered out: zero area or fewer than 4 points (the ratio of
\* area to perimeter of a contour of the map is below machine epsilon only
\* when its area is zero).
Degenerate(c) == c.shape.area = RatInt(0) \/ c.shape.points < 4

\* The contours of a map that survive the filter and the score cutoff, in
\* the order found.
Surviving(contours) ==
    SelectSeq(contours, LAMBDA c : ~Degenerate(c) /\ RatLeq(box_thresh, c.score))

\* A box in relative coordinates, with the score as last column.
Normalized(box, score) ==
    [j \in 1..(Len(box) + 1) |->
        IF j = Len(box) + 1 THEN score
        ELSE IF j <= 4 THEN RatMul(box[j], <<1, MapSide>>) ELSE box[j]]

\* A plausible slip: the images without a surviving region are left out.
ImageBoxesOrNothing(contours, assume_straight_pages) ==
    LET kept == Surviving(contours)
    IN  IF kept = <<>> THEN <<>>
        ELSE <<Array(Len(kept), IF assume_straight_pages THEN 5 ELSE 6, "float",
                     [i \in 1..Len(kept) |->
                        Normalized(polygon_to_box(kept[i], assume_straight_pages).box, kept[i].score)])>>

\* The boxes of one image: an array (K, 5) or (K, 6), K = 0 included.
ImageBoxes(contours, assume_straight_pages) ==
    LET kept == Surviving(contours)
    IN  <<Array(Len(kept), IF assume_straight_pages THEN 5 ELSE 6, "float",
                [i \in 1..Len(kept) |->
                    Normalized(polygon_to_box(kept[i], assume_straight_pages).box, kept[i].score)])>>

RECURSIVE BoxesPerImage(_, _)
BoxesPerImage(maps, assume_straight_pages) ==
    IF maps = <<>> THEN <<>>
    ELSE ImageBoxes(maps[1].contours, assume_straight_pages)
            \o BoxesPerImage(Tail(maps), assume_straight_pages)

\* __call__(probability_maps) -> (boxes_per_image, metadata)
DetectionPostProcessor(maps, assume_straight_pages) ==
    <<BoxesPerImage(maps, assume_straight_pages), [i \in 1..Len(maps) |-> [image |-> i]]>>

\* The numbers of contours of the maps of a batch: at most MaxMaps maps with
\* MaxRegions contours in all.
RECURSIVE SumCounts(_)
SumCounts(c) == IF c = <<>> THEN 0 ELSE c[1] + SumCounts(Tail(c))

ContourCounts ==
    {c \in UNION {[1..b -> 0..MaxRegions] : b \in 1..MaxMaps} : SumCounts(c) <= MaxRegions}

\* The batch whose i-th map has the next c[i] contours of `found`; a map is
\* all-zero only if it has no contour.
Batch(c, zero, found) ==
    [i \in 1..Len(c) |->
        [zero |-> zero[i] /\ c[i] = 0,
         contours |-> [k \in 1..c[i] |-> found[SumCounts(SubSeq(c, 1, i - 1)) + k]]]]

\* A call of polygon_to_box on a contour, of the post-processor on a batch
\* of maps, or of a detection model whose forward pass has computed the maps.
DetInit ==
    /\ detPc = "called"
    /\ \/ /\ detOp = "polygon_to_box"
          /\ detArgs \in [assume_straight_pages : BOOLEAN, points : MapContours]
       \/ /\ detOp \in {"postprocessor", "linknet", "fast"}
          /\ \E c \in ContourCounts :
                \E zero \in {z \in [1..Len(c) -> BOOLEAN] : \A i \in 1..Len(c) : z[i] => c[i] = 0},
                   found \in [1..SumCounts(c) -> MapContours],
                   straight \in BOOLEAN :
                    detArgs = [assume_straight_pages |-> straight,
                               maps |-> Batch(c, zero, found)]
    /\ detRet = <<>>
    /\ detPreds = <<>>

PolygonToBox ==
    /\ detPc = "called"
    /\ detOp = "polygon_to_box"
    /\ detRet' = polygon_to_box(detArgs.points, detArgs.assume_straight_pages)
    /\ detPc' = "done"
    /\ UNCHANGED <<detOp, detArgs, detPreds, notDetVars>>

CallDetectionPostProcessor ==
    /\ detPc = "called"
    /\ detOp # "polygon_to_box"
    /\ detRet' = DetectionPostProcessor(detArgs.maps, detArgs.assume_straight_pages)
    /\ detPc' = "done"
    /\ UNCHANGED <<detOp, detArgs, detPreds, notDetVars>>

\* out["preds"] = [preds[0] for preds in self.postprocessor(...)]
LinkNetPreds ==
    /\ detPc = "done"
    /\ detOp = "linknet"
    /\ detPreds' = [k \in 1..Len(detRet) |-> detRet[k][1]]
    /\ detPc' = "returned"
    /\ UNCHANGED <<detOp, detArgs, detRet, notDetVars>>

\* out["preds"] = [dict(zip(self.class_names, preds)) for preds in
\* self.postprocessor(...)], with the one class name of the default.
FastPreds ==
    /\ detPc = "done"
    /\ detOp = "fast"
    /\ detPreds' = [k \in 1..Len(detRet) |-> [words |-> detRet[k][1]]]
    /\ detPc' = "returned"
    /\ UNCHANGED <<detOp, detArgs, detRet, notDetVars>>

DetNext == PolygonToBox \/ CallDetectionPostProcessor \/ LinkNetPreds \/ FastPreds

(***************************************************************************)
(* The OCR predictor: the crops of all pages are recognised in batches and *)
(* the words are split per page again.                                     *)
(***************************************************************************)
\* Largest number of pages of a document and of boxes detected on a page.
MaxPages == 3
MaxPageBoxes == 2

\* The recognition batch sizes: 32 is the default reco_bs.
BatchSizes == {1, 2, 32}

\* The crop of box j of page k, and the word the recognition stage decodes
\* from a crop.
PageCrop(k, j) == [page |-> k, box |-> j]
Recognized(crop) == [text_of |-> crop, confidence_of |-> crop]

\* The crops of the pages one after the other, page by page and box by box.
RECURSIVE AllCrops(_, _)
AllCrops(counts, k) ==
    IF k > Len(counts) THEN <<>>
    ELSE [j \in 1..counts[k] |-> PageCrop(k, j)] \o AllCrops(counts, k + 1)

\* A plausible slip: the words of a page taken from where those of the page
\* before start.
RECURSIVE OffsetOfPageBefore(_, _)
OffsetOfPageBefore(counts, k) ==
    IF k <= 2 THEN 0 ELSE counts[k - 2] + OffsetOfPageBefore(counts, k - 1)

\* The number of crops of the pages before page k.
RECURSIVE Offset(_, _)
Offset(counts, k) == IF k <= 1 THEN 0 ELSE counts[k - 1] + Offset(counts, k - 1)

\* The words of every page: as many as the page has boxes, taken in order
\* from the words of all crops.
SplitPerPage(words, counts) ==
    [k \in 1..Len(counts) |-> [j \in 1..counts[k] |-> words[Offset(counts, k) + j]]]

\* The documents: the number of boxes detected on each page.
PageBoxCounts == UNION {[1..n -> 0..MaxPageBoxes] : n \in 0..MaxPages}

OcrInit ==
    /\ ocrPc = "called"
    /\ ocrArgs \in [counts : PageBoxCounts, reco_bs : BatchSizes]
    /\ ocrCrops = <<>>
    /\ ocrWords = <<>>
    /\ ocrPages = <<>>

\* Detection and crop extraction, page by page; the crops are concatenated.
ExtractAllCrops ==
    /\ ocrPc = "called"
    /\ ocrCrops' = AllCrops(ocrArgs.counts, 1)
    /\ ocrPc' = "recognition"
    /\ UNCHANGED <<ocrArgs, ocrWords, ocrPages, notOcrVars>>

\* The recognition stage processes the next batch of at most reco_bs crops.
RecognizeBatch ==
    /\ ocrPc = "recognition"
    /\ Len(ocrWords) < Len(ocrCrops)
    /\ LET first == Len(ocrWords) + 1
           last  == Min(Len(ocrWords) + ocrArgs.reco_bs, Len(ocrCrops))
       IN  ocrWords' = ocrWords \o [i \in 1..(last - first + 1) |-> Recognized(ocrCrops[first + i - 1])]
    /\ UNCHANGED <<ocrPc, ocrArgs, ocrCrops, ocrPages, notOcrVars>>

\* All crops are recognised (none, when no box was detected): the words are
\* split per page.
BuildPages ==
    /\ ocrPc = "recognition"
    /\ Len(ocrWords) = Len(ocrCrops)
    /\ ocrPages' = SplitPerPage(ocrWords, ocrArgs.counts)
    /\ ocrPc' = "done"
    /\ UNCHANGED <<ocrArgs, ocrCrops, ocrWords, notOcrVars>>

OcrNext == ExtractAllCrops \/ RecognizeBatch \/ BuildPages

(***************************************************************************)
(* SAR inference: SARDecoder.forward, then SAR.forward calling the         *)
(* post-processor on the decoded features.                                 *)
(***************************************************************************)
\* exp(x) of a rational 0 <= x <= 1 is enclosed between two fixed-point
\* numbers of ExpScale units, from ExpTerms terms of its series; what the
\* series leaves out is below 2 / (ExpTerms + 1)!.
ExpScale == 10000
ExpTerms == 8

RECURSIVE Factorial(_)
Factorial(n) == IF n = 0 THEN 1 ELSE n * Factorial(n - 1)

RECURSIVE ExpTermLo(_, _)
ExpTermLo(x, k) ==
    IF k = 0 THEN ExpScale ELSE (ExpTermLo(x, k - 1) * x[1]) \div (x[2] * k)

RECURSIVE ExpTermHi(_, _)
ExpTermHi(x, k) ==
    IF k = 0 THEN ExpScale
    ELSE (ExpTermHi(x, k - 1) * x[1] + x[2] * k - 1) \div (x[2] * k)

RECURSIVE ExpSumLo(_, _)
ExpSumLo(x, k) == ExpTermLo(x, k) + (IF k = 0 THEN 0 ELSE ExpSumLo(x, k - 1))

RECURSIVE ExpSumHi(_, _)
ExpSumHi(x, k) == ExpTermHi(x, k) + (IF k = 0 THEN 0 ELSE ExpSumHi(x, k - 1))

ExpLo(x) == ExpSumLo(x, ExpTerms)
ExpHi(x) == ExpSumHi(x, ExpTerms) + (2 * ExpScale) \div Factorial(ExpTerms + 1) + 1

\* Number of classes of SARDecoder.output_dense: vocab_size + 1.
SarClasses == NumClasses("sar")

\* F.softmax(logits, dim=-1) on the raw scores of one timestep.
F_softmax(row) == [c \in 0..(SarClasses - 1) |-> Softmax(row, c)]

\* argmax over a row of rationals: the first index holding the maximum.
RECURSIVE RatArgMaxUpTo(_, _)
RatArgMaxUpTo(row, n) ==
    IF n = 0 THEN 0
    ELSE LET k == RatArgMaxUpTo(row, n - 1) IN IF RatLt(row[k], row[n]) THEN n ELSE k

RatArgMax(row) == RatArgMaxUpTo(row, SarClasses - 1)

RECURSIVE SumExpLo(_, _)
SumExpLo(row, n) == IF n < 0 THEN 0 ELSE ExpLo(row[n]) + SumExpLo(row, n - 1)

RECURSIVE SumExpHi(_, _)
SumExpHi(row, n) == IF n < 0 THEN 0 ELSE ExpHi(row[n]) + SumExpHi(row, n - 1)

\* torch.softmax(row)[k] of a row of probabilities, enclosed: the smallest
\* and the largest value of exp(row[k]) / sum_j exp(row[j]).
SoftmaxOfProbs(row, k) ==
    [lo |-> Rat(ExpLo(row[k]), ExpLo(row[k]) + SumExpHi(row, SarClasses - 1) - ExpHi(row[k])),
     hi |-> Rat(ExpHi(row[k]), ExpHi(row[k]) + SumExpLo(row, SarClasses - 1) - ExpLo(row[k]))]

\* An exactly known value as an enclosure.
Exactly(p) == [lo |-> p, hi |-> p]

\* SARDecoder.forward: the stacked per-timestep outputs.  With a target they
\* are the raw scores of output_dense (dropout is the identity in eval
\* mode); without one, every timestep is passed through F.softmax before it
\* is appended.
SARDecoder(scores, gt) ==
    IF gt THEN [softmaxed |-> FALSE, values |-> scores]
    ELSE [softmaxed |-> TRUE,
          values |-> [i \in 1..Len(scores) |->
                        [t \in 1..Len(scores[i]) |-> F_softmax(scores[i][t])]]]

\* SARPostProcessor.__call__ on the decoded features: arg-max, softmax,
\* gather, minimum over the timesteps, decoding of the text.
SARPostProcessorOn(features) ==
    IF ~features.softmaxed
    THEN [i \in 1..Len(features.values) |->
            <<SARPostProcessor(features.values)[i][1],
              Exactly(SARPostProcessor(features.values)[i][2])>>]
    ELSE LET values   == features.values
             out_idxs == [i \in 1..Len(values) |->
                            [t \in 1..Len(values[i]) |-> RatArgMax(values[i][t])]]
             probs    == [i \in 1..Len(values) |->
                            [t \in 1..Len(values[i]) |->
                                SoftmaxOfProbs(values[i][t], out_idxs[i][t])]]
             word_values == [i \in 1..Len(values) |->
                               PySplit(Join(Tokens("sar", out_idxs[i])), EOS_TOKEN)[1]]
         IN  [i \in 1..Len(values) |->
                <<word_values[i],
                  [lo |-> RatMin([t \in 1..Len(probs[i]) |-> probs[i][t].lo]),
                   hi |-> RatMin([t \in 1..Len(probs[i]) |-> probs[i][t].hi])]>>]

\* The raw scores of a batch: rows drawn freely, and the row of equal scores.
SarScores ==
    UNION {[1..B -> [1..L -> FreeRows("sar") \cup {Row("sar", 0, 0)}]] :
              <<B, L>> \in {bl \in (1..MaxCells) \X (1..MaxCells) : bl[1] * bl[2] <= MaxCells}}

\* SAR.forward(x, target, return_preds=True) is called; output_dense will
\* produce the raw scores sarArgs.scores.
SarInit ==
    /\ sarPc = "called"
    /\ sarArgs \in [scores : SarScores, target : BOOLEAN]
    /\ sarOut = <<>>
    /\ sarPreds = <<>>

\* decoded_features = self.decoder(features, encoded, gt=...)
SarDecode ==
    /\ sarPc = "called"
    /\ sarOut' = SARDecoder(sarArgs.scores, sarArgs.target)
    /\ sarPc' = "decoded"
    /\ UNCHANGED <<sarArgs, sarPreds, notSarVars>>

\* out["preds"] = self.postprocessor(decoded_features)
SarPostProcess ==
    /\ sarPc = "decoded"
    /\ sarPreds' = SARPostProcessorOn(sarOut)
    /\ sarPc' = "done"
    /\ UNCHANGED <<sarArgs, sarOut, notSarVars>>

SarNext == SarDecode \/ SarPostProcess

(***************************************************************************)
(* crop_detection: validation of crop_box, crop of the image, crop of the  *)
(* boxes.                                                                  *)
(***************************************************************************)
\* A plausible slip: only the upper end of the range is validated.
NotRelativeAboveOnly(crop_box) ==
    \E k \in 1..Len(crop_box) : RatLt(RatInt(1), crop_box[k])

\* any(val < 0 or val > 1 for val in crop_box)
NotRelative(crop_box) ==
    \E k \in 1..Len(crop_box) : RatLt(crop_box[k], RatInt(0)) \/ RatLt(RatInt(1), crop_box[k])

\* xmin, ymin, xmax, ymax = int(round(crop_box[k] * (w - 1))), ... (h - 1)
PixelWindow(im, crop_box) ==
    <<Round(RatMul(crop_box[1], RatInt(im.w - 1))), Round(RatMul(crop_box[2], RatInt(im.h - 1))),
      Round(RatMul(crop_box[3], RatInt(im.w - 1))), Round(RatMul(crop_box[4], RatInt(im.h - 1)))>>

\* tf.image.crop_to_bounding_box(img, offset_height, offset_width,
\* target_height, target_width): the window of the image, a ValueError when
\* the target is empty or sticks out of the image.
crop_to_bounding_box(im, offset_height, offset_width, target_height, target_width) ==
    IF \/ offset_height < 0 \/ offset_width < 0
       \/ target_height <= 0 \/ target_width <= 0
       \/ im.h < offset_height + target_height
       \/ im.w < offset_width + target_width
    THEN [err |-> "ValueError", img |-> <<>>]
    ELSE [err |-> "none",
          img |-> Slice(im, offset_height, offset_height + target_height,
                        offset_width, offset_width + target_width)]

\* The call crop_boxes(boxes, crop_box if boxes.max() <= 1 else (xmin, ymin,
\* xmax, ymax)): the boxes clipped to the window they are given.
crop_boxes(bxs, window) == [boxes |-> bxs, clipped_to |-> window]

\* The crop boxes: every coordinate in range, at its ends, or out of range.
CropCoords == {<<-1, 2>>, <<0, 1>>, <<1, 2>>, <<1, 1>>, <<3, 2>>}
CropBoxes == [1..4 -> CropCoords]

\* The boxes of the target: relative (largest entry <= 1) or absolute.
TargetBoxes ==
    {Array(1, 4, "float", <<<<RatInt(0), RatInt(0), <<1, 2>>, RatInt(1)>>>>),
     Array(1, 4, "int", <<<<RatInt(0), RatInt(0), RatInt(1), RatInt(2)>>>>)}

\* boxes.max()
RECURSIVE MaxEntry(_, _)
MaxEntry(row, n) ==
    IF n = 1 THEN row[1]
    ELSE LET m == MaxEntry(row, n - 1) IN IF RatLt(m, row[n]) THEN row[n] ELSE m

CdInit ==
    /\ cdPc = "called"
    /\ cdArgs \in [img : Images, boxes : TargetBoxes, crop_box : CropBoxes]
    /\ cdImg = <<>>
    /\ cdBoxes = <<>>
    /\ cdErr = "none"

\* if any(...): raise AssertionError(...)
CdValidate ==
    /\ cdPc = "called"
    /\ IF NotRelative(cdArgs.crop_box)
       THEN cdPc' = "raised" /\ cdErr' = "AssertionError"
       ELSE cdPc' = "validated" /\ cdErr' = cdErr
    /\ UNCHANGED <<cdArgs, cdImg, cdBoxes, notCdVars>>

\* cropped_img = tf.image.crop_to_bounding_box(img, ymin, xmin, ymax - ymin,
\* xmax - xmin)
CdCropImage ==
    /\ cdPc = "validated"
    /\ LET win == PixelWindow(cdArgs.img, cdArgs.crop_box)
           out == crop_to_bounding_box(cdArgs.img, win[2], win[1], win[4] - win[2], win[3] - win[1])
       IN  /\ cdImg' = out.img
           /\ cdErr' = out.err
           /\ cdPc' = IF out.err = "none" THEN "image_cropped" ELSE "raised"
    /\ UNCHANGED <<cdArgs, cdBoxes, notCdVars>>

\* boxes = crop_boxes(boxes, ...); return cropped_img, boxes
CdCropBoxes ==
    /\ cdPc = "image_cropped"
    /\ cdBoxes' = crop_boxes(cdArgs.boxes,
                             IF RatLeq(MaxEntry(cdArgs.boxes.rows[1], 4), RatInt(1))
                             THEN cdArgs.crop_box
                             ELSE PixelWindow(cdArgs.img, cdArgs.crop_box))
    /\ cdPc' = "done"
    /\ UNCHANGED <<cdArgs, cdImg, cdErr, notCdVars>>

CdNext == CdValidate \/ CdCropImage \/ CdCropBoxes

(***************************************************************************)
(* Import of doctr.file_utils: selection of the deep-learning framework.   *)
(***************************************************************************)
ENV_VARS_TRUE_VALUES == {"1", "ON", "YES", "TRUE"}
ENV_VARS_TRUE_AND_AUTO_VALUES == ENV_VARS_TRUE_VALUES \cup {"AUTO"}

\* The values of an environment variable: unset, or set to a string.
EnvValues ==
    {[set |-> FALSE, value |-> ""]} \cup
    {[set |-> TRUE, value |-> v] : v \in {"1", "0", "on", "Yes", "true", "auto", "AUTO", "no"}}

\* str.upper() on the strings of EnvValues.
Upper(s) ==
    CASE s = "on"   -> "ON"
      [] s = "Yes"  -> "YES"
      [] s = "true" -> "TRUE"
      [] s = "auto" -> "AUTO"
      [] s = "no"   -> "NO"
      [] OTHER      -> s

\* os.environ.get(name, default)
EnvGet(var, default) == IF var.set THEN var.value ELSE default

\* What is installed: PyTorch absent, importable without package metadata,
\* or installed; TensorFlow absent, importable without package metadata, or
\* installed with major version 1 or 2.
TorchInstalls == {"absent", "no_metadata", "installed"}
TfInstalls == {"absent", "no_metadata", "v1", "v2"}

\* A plausible slip: the final check is dropped.
NoFrameworkUnchecked(torch_av, tf_av) == FALSE

\* not _torch_available and not _tf_available
NoFramework(torch_av, tf_av) == ~torch_av /\ ~tf_av

FuInit ==
    /\ fuPc = "start"
    /\ fuEnv \in [USE_TF : EnvValues, USE_TORCH : EnvValues]
    /\ fuInstalled \in [torch : TorchInstalls, tf : TfInstalls]
    /\ USE_TF = "" /\ USE_TORCH = ""
    /\ tf_available = FALSE /\ torch_available = FALSE
    /\ fuErr = "none"

\* USE_TF = os.environ.get("USE_TF", "AUTO").upper(), likewise USE_TORCH
FuReadEnv ==
    /\ fuPc = "start"
    /\ USE_TF' = Upper(EnvGet(fuEnv.USE_TF, "AUTO"))
    /\ USE_TORCH' = Upper(EnvGet(fuEnv.USE_TORCH, "AUTO"))
    /\ fuPc' = "env_read"
    /\ UNCHANGED <<fuEnv, fuInstalled, tf_available, torch_available, fuErr, notFuVars>>

\* if both are enabled: USE_TF, USE_TORCH = "1", "0"
FuPreferTensorFlow ==
    /\ fuPc = "env_read"
    /\ IF USE_TF \in ENV_VARS_TRUE_AND_AUTO_VALUES /\ USE_TORCH \in ENV_VARS_TRUE_AND_AUTO_VALUES
       THEN USE_TF' = "1" /\ USE_TORCH' = "0"
       ELSE UNCHANGED <<USE_TF, USE_TORCH>>
    /\ fuPc' = "selected"
    /\ UNCHANGED <<fuEnv, fuInstalled, tf_available, torch_available, fuErr, notFuVars>>

\* The if / elif that probes PyTorch or TensorFlow.
FuProbe ==
    /\ fuPc = "selected"
    /\ IF USE_TORCH \in ENV_VARS_TRUE_AND_AUTO_VALUES /\ USE_TF \notin ENV_VARS_TRUE_VALUES
       THEN IF fuInstalled.torch = "no_metadata"
            THEN /\ torch_available' = TRUE
                 /\ fuErr' = "ModuleNotFoundError"
                 /\ fuPc' = "failed"
                 /\ UNCHANGED tf_available
            ELSE /\ torch_available' = (fuInstalled.torch = "installed")
                 /\ fuPc' = "probed"
                 /\ UNCHANGED <<tf_available, fuErr>>
       ELSE IF USE_TF \in ENV_VARS_TRUE_AND_AUTO_VALUES /\ USE_TORCH \notin ENV_VARS_TRUE_VALUES
            THEN /\ tf_available' = (fuInstalled.tf = "v2")
                 /\ fuPc' = "probed"
                 /\ UNCHANGED <<torch_available, fuErr>>
            ELSE /\ fuPc' = "probed"
                 /\ UNCHANGED <<tf_available, torch_available, fuErr>>
    /\ UNCHANGED <<fuEnv, fuInstalled, USE_TF, USE_TORCH, notFuVars>>

\* if not _torch_available and not _tf_available: raise ModuleNotFoundError
FuCheck ==
    /\ fuPc = "probed"
    /\ IF NoFramework(torch_available, tf_available)
       THEN fuErr' = "ModuleNotFoundError" /\ fuPc' = "failed"
       ELSE fuErr' = fuErr /\ fuPc' = "imported"
    /\ UNCHANGED <<fuEnv, fuInstalled, USE_TF, USE_TORCH, tf_available, torch_available, notFuVars>>

FuNext == FuReadEnv \/ FuPreferTensorFlow \/ FuProbe \/ FuCheck

is_torch_available == torch_available
is_tf_available == tf_available

(***************************************************************************)
(* PARSeq: the greedy decoding of PARSeq.forward without target, and       *)
(* generate_attention_masks.                                               *)
(***************************************************************************)
\* Largest batch size and largest self.max_length of a forward pass, largest
\* length of a permutation.
MaxBatch == 2
MaxSteps == 3
MaxPerm == 4

\* self.vocab_size = len(vocab) + 3
vocab_size == Len(Vocab) + 3

\* The classes of self.head = nn.Linear(embedding_units, self.vocab_size - 2).
HeadClasses == 0..(vocab_size - 3)

\* The arg-max of p_i for one sequence, the decoder being a black box: the
\* first character of the vocabulary, or the last class of the head, which
\* the post-processor decodes as end-of-sequence.
StepTokens == {0, vocab_size - 3}

\* tgt[:, :j]: the first j positions of every row (all of them if fewer).
Prefix(t, j) == [n \in 1..Len(t) |-> SubSeq(t[n], 1, Min(j, Len(t[n])))]

\* A plausible slip: the next token index is one too far.
NextIndexSkipping(i) == i + 2

\* j = i + 1  # next token index
NextIndex(i) == i + 1

\* (tgt_in == self.vocab_size - 2).any(dim=-1).all()
AllHaveEos(t) ==
    \A n \in 1..Len(t) : \E k \in 1..Len(t[n]) : t[n][k] = vocab_size - 2

\* logits[:, :-1].argmax(-1), the logits being the concatenation of the p_i.
RefineTokens(steps, N) ==
    [n \in 1..N |-> [k \in 1..(Len(steps) - 1) |-> steps[k][n]]]

\* The mask after the iterations 0..i-1 of the loop of
\* generate_attention_masks: mask[query_idx, masked_keys] = 1.0 on the mask
\* of ones.
RECURSIVE MaskLoop(_, _)
MaskLoop(permutation, i) ==
    LET sz == Len(permutation)
    IN  IF i = 0 THEN [r \in 0..(sz - 1) |-> [c \in 0..(sz - 1) |-> 1]]
        ELSE LET mask        == MaskLoop(permutation, i - 1)
                 query_idx   == permutation[i]
                 masked_keys == {permutation[k] : k \in (i + 1)..sz}
             IN  [r \in 0..(sz - 1) |-> [c \in 0..(sz - 1) |->
                    IF r = query_idx /\ c \in masked_keys THEN 1 ELSE mask[r][c]]]

\* generate_attention_masks(permutation): the mask before slicing, the
\* content mask mask[:-1, :-1], and the query mask mask[1:, :-1] taken after
\* the diagonal is set to 1.
generate_attention_masks(permutation) ==
    LET sz   == Len(permutation)
        mask == MaskLoop(permutation, sz)
        eyed == [r \in 0..(sz - 1) |-> [c \in 0..(sz - 1) |-> IF r = c THEN 1 ELSE mask[r][c]]]
    IN  [mask |-> mask,
         content_mask |-> [r \in 0..(sz - 2) |-> [c \in 0..(sz - 2) |-> mask[r][c]]],
         query_mask |-> [r \in 1..(sz - 1) |-> [c \in 0..(sz - 2) |-> eyed[r][c]]]]

\* The permutations of 0..sz-1, as sequences.
PermutationsOf(sz) ==
    {p \in [1..sz -> 0..(sz - 1)] : \A a, b \in 1..sz : p[a] = p[b] => a = b}

PsInit ==
    /\ psPc = "called"
    /\ \/ /\ psOp = "forward"
          /\ psArgs \in [N : 1..MaxBatch, max_length : 1..MaxSteps]
       \/ /\ psOp = "generate_attention_masks"
          /\ psArgs \in [permutation : UNION {PermutationsOf(sz) : sz \in 1..MaxPerm}]
    /\ tgt_in = <<>>
    /\ psI = 0
    /\ psSteps = <<>>
    /\ psEmbedded = <<>>
    /\ psWritten = <<>>
    /\ psMasks = <<>>

\* tgt_in = torch.full((N, self.max_length), self.vocab_size);
\* tgt_in[:, 0] = self.vocab_size - 1; logits = []
PsStart ==
    /\ psPc = "called"
    /\ psOp = "forward"
    /\ tgt_in' = [n \in 1..psArgs.N |->
                    [k \in 1..psArgs.max_length |-> IF k = 1 THEN vocab_size - 1 ELSE vocab_size]]
    /\ psPc' = "loop"
    /\ UNCHANGED <<psOp, psArgs, psI, psSteps, psEmbedded, psWritten, psMasks, notPsVars>>

\* One iteration of the greedy loop: decode (which passes tgt_in[:, :j] to
\* text_embed), head, and for j < max_length the write of the next token and
\* the test for the early exit.
PsDecodeStep ==
    /\ psPc = "loop"
    /\ LET j == NextIndex(psI)
       IN  \E p_i \in [1..psArgs.N -> StepTokens] :
              LET written == [n \in 1..psArgs.N |-> [tgt_in[n] EXCEPT ![j + 1] = p_i[n]]]
              IN  /\ psEmbedded' = Append(psEmbedded, Prefix(tgt_in, j))
                  /\ psSteps' = Append(psSteps, p_i)
                  /\ IF j < psArgs.max_length
                     THEN /\ tgt_in' = written
                          /\ psWritten' = Append(psWritten, j)
                          /\ psPc' = IF AllHaveEos(written) THEN "refine" ELSE "loop"
                     ELSE /\ psPc' = "refine"
                          /\ UNCHANGED <<tgt_in, psWritten>>
                  /\ psI' = psI + 1
    /\ UNCHANGED <<psOp, psArgs, psMasks, notPsVars>>

\* The refinement pass: tgt_in = cat([bos, logits[:, :-1].argmax(-1)]),
\* decoded once more.
PsRefine ==
    /\ psPc = "refine"
    /\ tgt_in' = [n \in 1..psArgs.N |->
                    <<vocab_size - 1>> \o RefineTokens(psSteps, psArgs.N)[n]]
    /\ psEmbedded' = Append(psEmbedded, tgt_in')
    /\ psPc' = "done"
    /\ UNCHANGED <<psOp, psArgs, psI, psSteps, psWritten, psMasks, notPsVars>>

PsGenerateMasks ==
    /\ psPc = "called"
    /\ psOp = "generate_attention_masks"
    /\ psMasks' = generate_attention_masks(psArgs.permutation)
    /\ psPc' = "done"
    /\ UNCHANGED <<psOp, psArgs, tgt_in, psI, psSteps, psEmbedded, psWritten, notPsVars>>

PsNext == PsStart \/ PsDecodeStep \/ PsRefine \/ PsGenerateMasks

(***************************************************************************)
(* Components that take no part in a specification stay idle.              *)
(***************************************************************************)
RecIdle ==
    /\ recPc = "idle"
    /\ arch = "none"
    /\ logits = <<>>
    /\ preds = <<>>

CropIdle ==
    /\ cropPc = "idle"
    /\ cropOp = "none"
    /\ img = <<>>
    /\ boxes = <<>>
    /\ cropRet = <<>>

RotIdle ==
    /\ rotPc = "idle"
    /\ rotOp = "none"
    /\ rotArgs = <<>>
    /\ rotRet = <<>>
    /\ rotBack = <<>>

AngIdle ==
    /\ angPc = "idle"
    /\ angArgs = <<>>
    /\ angRet = <<>>

DetIdle ==
    /\ detPc = "idle"
    /\ detOp = "none"
    /\ detArgs = <<>>
    /\ detRet = <<>>
    /\ detPreds = <<>>

OcrIdle ==
    /\ ocrPc = "idle"
    /\ ocrArgs = <<>>
    /\ ocrCrops = <<>>
    /\ ocrWords = <<>>
    /\ ocrPages = <<>>

SarIdle ==
    /\ sarPc = "idle"
    /\ sarArgs = <<>>
    /\ sarOut = <<>>
    /\ sarPreds = <<>>

CdIdle ==
    /\ cdPc = "idle"
    /\ cdArgs = <<>>
    /\ cdImg = <<>>
    /\ cdBoxes = <<>>
    /\ cdErr = "none"

FuIdle ==
    /\ fuPc = "idle"
    /\ fuEnv = <<>>
    /\ fuInstalled = <<>>
    /\ USE_TF = ""
    /\ USE_TORCH = ""
    /\ tf_available = FALSE
    /\ torch_available = FALSE
    /\ fuErr = "none"

PsIdle ==
    /\ psPc = "idle"
    /\ psOp = "none"
    /\ psArgs = <<>>
    /\ tgt_in = <<>>
    /\ psI = 0
    /\ psSteps = <<>>
    /\ psEmbedded = <<>>
    /\ psWritten = <<>>
    /\ psMasks = <<>>

InitRec == RecInit /\ CropIdle /\ RotIdle /\ AngIdle /\ DetIdle /\ OcrIdle /\ SarIdle /\ CdIdle /\ FuIdle /\ PsIdle

SpecRec == InitRec /\ [][RecNext]_vars

InitCrops == RecIdle /\ CropInit /\ RotIdle /\ AngIdle /\ DetIdle /\ OcrIdle /\ SarIdle /\ CdIdle /\ FuIdle /\ PsIdle

SpecCrops == InitCrops /\ [][CropNext]_vars

InitRot == RecIdle /\ CropIdle /\ RotInit /\ AngIdle /\ DetIdle /\ OcrIdle /\ SarIdle /\ CdIdle /\ FuIdle /\ PsIdle

SpecRot == InitRot /\ [][RotNext]_vars

InitAngle == RecIdle /\ CropIdle /\ RotIdle /\ AngInit /\ DetIdle /\ OcrIdle /\ SarIdle /\ CdIdle /\ FuIdle /\ PsIdle

SpecAngle == InitAngle /\ [][AngNext]_vars

InitDet == RecIdle /\ CropIdle /\ RotIdle /\ AngIdle /\ DetInit /\ OcrIdle /\ SarIdle /\ CdIdle /\ FuIdle /\ PsIdle

SpecDet == InitDet /\ [][DetNext]_vars

InitOcr == RecIdle /\ CropIdle /\ RotIdle /\ AngIdle /\ DetIdle /\ OcrInit /\ SarIdle /\ CdIdle /\ FuIdle /\ PsIdle

SpecOcr == InitOcr /\ [][OcrNext]_vars

InitSar == RecIdle /\ CropIdle /\ RotIdle /\ AngIdle /\ DetIdle /\ OcrIdle /\ SarInit /\ CdIdle /\ FuIdle /\ PsIdle

SpecSar == InitSar /\ [][SarNext]_vars

InitCropDetection == RecIdle /\ CropIdle /\ RotIdle /\ AngIdle /\ DetIdle /\ OcrIdle /\ SarIdle /\ CdInit /\ FuIdle /\ PsIdle

SpecCropDetection == InitCropDetection /\ [][CdNext]_vars

InitFileUtils == RecIdle /\ CropIdle /\ RotIdle /\ AngIdle /\ DetIdle /\ OcrIdle /\ SarIdle /\ CdIdle /\ FuInit /\ PsIdle

SpecFileUtils == InitFileUtils /\ [][FuNext]_vars

InitParseq == RecIdle /\ CropIdle /\ RotIdle /\ AngIdle /\ DetIdle /\ OcrIdle /\ SarIdle /\ CdIdle /\ FuIdle /\ PsInit

SpecParseq == InitParseq /\ [][PsNext]_vars

(***************************************************************************)
(* Claims about the recognition post-processors.                           *)
(***************************************************************************)
RecDone == recPc = "done"

\* Arg-max class indices of sequence i of the current batch.
Idxs(i) == [t \in 1..Len(logits[i]) |-> ArgMax(logits[i][t])]

\* Probability of the arg-max class at timestep t of sequence i.
Prob(i, t) == Softmax(logits[i][t], ArgMax(logits[i][t]))

\* First timestep of sequence i selecting end-of-sequence, Len + 1 if none.
FirstEos(i) ==
    LET eos == {t \in 1..Len(logits[i]) : Idxs(i)[t] = EosIdx}
    IN  IF eos = {} THEN Len(logits[i]) + 1 ELSE CHOOSE t \in eos : \A u \in eos : t <= u

\* Concatenation of the characters of timesteps 1..n of sequence i.
RECURSIVE CharsUpTo(_, _)
CharsUpTo(i, n) ==
    IF n = 0 THEN <<>> ELSE CharsUpTo(i, n - 1) \o Embedding(arch)[Idxs(i)[n] + 1]

\* C1: the text of every sequence is the concatenation of the characters of
\* the arg-max indices strictly before the first end-of-sequence timestep
\* (everything if there is none, the empty string if it is the first).
C1_TextCutAtFirstEosIndex ==
    RecDone => \A i \in 1..Len(logits) : preds[i][1] = CharsUpTo(i, FirstEos(i) - 1)

\* Sequence i is a word of n >= 1 vocabulary characters, then end-of-sequence,
\* then at least one padding position.
IsWordEosPadding(i, n) ==
    /\ n >= 1
    /\ n + 1 < Len(logits[i])
    /\ \A t \in 1..n : Idxs(i)[t] < EosIdx
    /\ Idxs(i)[n + 1] = EosIdx

\* Smallest of Prob(i, 1) .. Prob(i, n).
RECURSIVE MinProbUpTo(_, _)
MinProbUpTo(i, n) ==
    IF n = 1 THEN Prob(i, 1)
    ELSE LET m == MinProbUpTo(i, n - 1)
         IN  IF RatLt(Prob(i, n), m) THEN Prob(i, n) ELSE m

\* C2: for a word followed by end-of-sequence and padding, the result is
\* (word, p) with p the minimum over the word and the first end-of-sequence
\* position only.
C2_ConfidenceIgnoresPadding ==
    RecDone =>
        \A i \in 1..Len(logits) : \A n \in 1..Len(logits[i]) :
            IsWordEosPadding(i, n) =>
                /\ preds[i][1] = CharsUpTo(i, n)
                /\ RatEq(preds[i][2], MinProbUpTo(i, n + 1))

\* C3: the confidence of every sequence is the minimum of the selected-class
\* probabilities over all timesteps, wherever the text is cut.
C3_ConfidenceOverAllTimesteps ==
    RecDone =>
        \A i \in 1..Len(logits) :
            /\ \A t \in 1..Len(logits[i]) : RatLeq(preds[i][2], Prob(i, t))
            /\ \E t \in 1..Len(logits[i]) : RatEq(preds[i][2], Prob(i, t))

\* A call in which the weakest timestep lies after the end-of-sequence
\* timestep and is the reported confidence.
C3_Witness ==
    /\ RecDone
    /\ \E i \in 1..Len(logits) : \E u \in 1..Len(logits[i]) :
          /\ FirstEos(i) < u
          /\ \A t \in 1..FirstEos(i) : RatLt(Prob(i, u), Prob(i, t))
          /\ RatEq(preds[i][2], Prob(i, u))

\* C4: one pair per sequence, pair i being what the post-processor returns
\* for sequence i alone.
C4_PerSequenceResult ==
    RecDone =>
        /\ Len(preds) = Len(logits)
        /\ \A i \in 1..Len(logits) : preds[i] = PostProcess(arch, <<logits[i]>>)[1]

\* A batch of two sequences with different texts and different confidences.
C4_Witness ==
    /\ RecDone
    /\ Len(logits) >= 2
    /\ preds[1][1] # preds[2][1]
    /\ ~RatEq(preds[1][2], preds[2][2])

(***************************************************************************)
(* Claims about extract_crops and extract_rcrops.                          *)
(***************************************************************************)
CropsDone  == cropPc = "done" /\ cropOp = "extract_crops"
RcropsDone == cropPc = "done" /\ cropOp = "extract_rcrops"

\* The slice the claim C5 names for relative box i.
ClaimedSlice(i) ==
    LET box == boxes.rows[i]
        H   == RatInt(img.h)
        W   == RatInt(img.w)
    IN  Slice(img, Round(RatMul(box[2], H)), Round(RatMul(box[4], H)),
                   Round(RatMul(box[1], W)), Round(RatMul(box[3], W)))

\* C5: for relative boxes of shape (N, 4), crop i is the slice of rows
\* [round(ymin*H), round(ymax*H)) and columns [round(xmin*W), round(xmax*W)),
\* whatever the position i of the box.
C5_CropIsRoundedSlice ==
    (CropsDone /\ boxes.k = 4 /\ boxes.dtype = "float") =>
        /\ cropRet.status = "ok"
        /\ Len(cropRet.crops) = boxes.n
        /\ \A i \in 1..boxes.n : cropRet.crops[i] = ClaimedSlice(i)

\* The boxes array [[0, 0, 1, 1]] of relative coordinates.
IdentityBox == Array(1, 4, "float", <<<<RatInt(0), RatInt(0), RatInt(1), RatInt(1)>>>>)

\* C6: with the single relative box (0, 0, 1, 1) the only crop is the image.
C6_IdentityCrop ==
    (CropsDone /\ boxes = IdentityBox) =>
        /\ cropRet.status = "ok"
        /\ Len(cropRet.crops) = 1
        /\ cropRet.crops[1].h = img.h
        /\ cropRet.crops[1].w = img.w
        /\ cropRet.crops[1].px = img.px

\* The identity box has been cropped from an image that is not square.
C6_Witness ==
    /\ CropsDone
    /\ boxes = IdentityBox
    /\ img.h # img.w
    /\ cropRet.crops[1].px = img.px

\* The call failed with the validation error before projecting or slicing.
FailedValidation ==
    /\ cropRet.status = "AssertionError"
    /\ cropRet.crops = <<>>
    /\ \A s \in 1..Len(cropRet.steps) : cropRet.steps[s] \notin {"project", "slice", "warp"}

\* C7 as stated: every array whose column count is not 4 (extract_crops),
\* not 5 (extract_rcrops), is rejected with the validation error before any
\* conversion or slicing.
C7_WrongColumnsRejected ==
    /\ (CropsDone /\ boxes.k # 4) => FailedValidation
    /\ (RcropsDone /\ boxes.k # 5) => FailedValidation

\* C7 amended: every array with at least one row whose column count is not 4
\* (extract_crops), not 5 (extract_rcrops), is rejected with the validation
\* error before any conversion or slicing.
C7_WrongColumnsRejectedIfNonEmpty ==
    /\ (CropsDone /\ boxes.n >= 1 /\ boxes.k # 4) => FailedValidation
    /\ (RcropsDone /\ boxes.n >= 1 /\ boxes.k # 5) => FailedValidation

\* extract_crops has rejected a one-row array of 5 columns.
C7_Witness ==
    /\ CropsDone
    /\ boxes.n = 1
    /\ boxes.k = 5
    /\ cropRet.status = "AssertionError"

\* C8: an array of shape (0, 4) for extract_crops, (0, 5) for extract_rcrops,
\* gives the empty list and no error.
C8_NoBoxNoCrop ==
    /\ (CropsDone /\ boxes.n = 0 /\ boxes.k = 4) =>
           (cropRet.status = "ok" /\ cropRet.crops = <<>>)
    /\ (RcropsDone /\ boxes.n = 0 /\ boxes.k = 5) =>
           (cropRet.status = "ok" /\ cropRet.crops = <<>>)

\* extract_crops has returned from a call with an array of shape (0, 4).
C8_Witness ==
    /\ CropsDone
    /\ boxes.n = 0
    /\ boxes.k = 4
    /\ img.h > 1
    /\ cropRet.crops = <<>>

\* Pixel width and height of rotated box i of the call.
PixelW(i) == IF boxes.dtype = "float" THEN RatMul(boxes.rows[i][3], RatInt(img.w))
             ELSE boxes.rows[i][3]
PixelH(i) == IF boxes.dtype = "float" THEN RatMul(boxes.rows[i][4], RatInt(img.h))
             ELSE boxes.rows[i][4]

\* The sum of the widths of the boxes passed exceeds the sum of their heights.
WidthSumGreater ==
    RatLt(SumCol(boxes.rows, 4, boxes.n), SumCol(boxes.rows, 3, boxes.n))

RotDone == rotPc = "done"

\* |angle| < min_angle or |angle| > 90 - min_angle, for the call made.
InGuardBand ==
    LET a == RatAbs(rotArgs.angle)
        m == rotArgs.min_angle
    IN  \/ a[1] * m[2] < m[1] * a[2]
        \/ a[1] * m[2] > (90 * m[2] - m[1]) * a[2]

\* C10: rotate_boxes and rotate_page return their input unchanged in the
\* guard band and rotate for every other angle, the two boundary values
\* |angle| = min_angle and |angle| = 90 - min_angle included.
C10_GuardBand ==
    RotDone =>
        IF InGuardBand
        THEN rotRet.rotated = FALSE /\ rotRet.out = rotArgs.obj
        ELSE /\ rotRet.rotated = TRUE
             /\ rotRet.out # rotArgs.obj
             /\ rotOp = "rotate_boxes" =>
                    /\ rotRet.out.k = 5
                    /\ rotRet.out.n = rotArgs.obj.n
                    /\ \A i \in 1..rotRet.out.n : rotRet.out.rows[i][5] = rotArgs.angle
             /\ rotOp = "rotate_page" =>
                    /\ rotRet.out.src = rotArgs.obj
                    /\ rotRet.out.angle = rotArgs.angle

\* With the default min_angle a page or boxes have been rotated by exactly
\* 1 or exactly 89 degrees.
C10_Witness ==
    /\ RotDone
    /\ rotArgs.min_angle = <<1, 1>>
    /\ RatAbs(rotArgs.angle) \in {<<1, 1>>, <<89, 1>>}
    /\ rotRet.rotated = TRUE

BoxesRotated == RotDone /\ rotOp = "rotate_boxes" /\ rotRet.rotated = TRUE

\* The centre of the straight box (xmin, ymin, xmax, ymax).
CentreOf(box) == <<RatMul(RatAdd(box[1], box[3]), Half), RatMul(RatAdd(box[2], box[4]), Half)>>

\* The square of the distance of the point p to the point (0.5, 0.5).
SqDistToPageCentre(p) ==
    LET dx == RatSub(p[1], Half)
        dy == RatSub(p[2], Half)
    IN  RatAdd(RatMul(dx, dx), RatMul(dy, dy))

\* C11: outside the guard band rotate_boxes maps N straight boxes to an
\* (N, 5) array whose row i holds the centre of box i rotated about
\* (0.5, 0.5), the width and the height of box i and the angle: a box centred
\* at (0.5, 0.5) keeps its centre, and every centre keeps its distance to
\* (0.5, 0.5).
C11_RotatedBoxes ==
    BoxesRotated =>
        /\ rotRet.out.n = rotArgs.obj.n
        /\ rotRet.out.k = 5
        /\ \A i \in 1..rotArgs.obj.n :
              LET b  == rotArgs.obj.rows[i]
                  r  == rotRet.out.rows[i]
                  ct == CentreOf(b)
                  dx == RatSub(ct[1], Half)
                  dy == RatSub(ct[2], Half)
                  c  == Cos(rotArgs.angle)
                  s  == Sin(rotArgs.angle)
              IN  /\ Len(r) = 5
                  /\ RatEq(r[3], RatSub(b[3], b[1]))
                  /\ RatEq(r[4], RatSub(b[4], b[2]))
                  /\ r[5] = rotArgs.angle
                  /\ RatEq(RatSub(r[1], Half), RatSub(RatMul(c, dx), RatMul(s, dy)))
                  /\ RatEq(RatSub(r[2], Half), RatAdd(RatMul(s, dx), RatMul(c, dy)))
                  /\ (RatEq(ct[1], Half) /\ RatEq(ct[2], Half))
                        => (RatEq(r[1], Half) /\ RatEq(r[2], Half))
                  /\ ExactAngle(rotArgs.angle)
                        => RatEq(SqDistToPageCentre(<<r[1], r[2]>>), SqDistToPageCentre(ct))

\* The top-left quarter and the centred box have been rotated by the angle
\* of the 3-4-5 triangle: the first centre has moved, the second has not.
C11_Witness ==
    /\ BoxesRotated
    /\ rotArgs.angle = <<3687, 100>>
    /\ rotArgs.obj.n = 2
    /\ rotArgs.obj.rows[1] = <<<<0, 1>>, <<0, 1>>, <<1, 2>>, <<1, 2>>>>
    /\ rotArgs.obj.rows[2] = <<<<1, 4>>, <<1, 4>>, <<3, 4>>, <<3, 4>>>>
    /\ ~RatEq(rotRet.out.rows[1][1], CentreOf(rotArgs.obj.rows[1])[1])
    /\ RatEq(rotRet.out.rows[2][1], Half)

BoxesRotatedBack == rotPc = "back"

PageRotated == RotDone /\ rotOp = "rotate_page" /\ rotRet.rotated = TRUE

\* The direction in which the vector v has to turn to point as the vector w
\* does, in image coordinates (x to the right, y downwards): the sign of the
\* cross product, positive for clockwise and negative for counter-clockwise
\* on the page.
Turn(v, w) ==
    LET cross == RatSub(RatMul(v[1], w[2]), RatMul(v[2], w[1]))
    IN  IF cross[1] > 0 THEN "clockwise"
        ELSE IF cross[1] < 0 THEN "counter-clockwise" ELSE "none"

\* The vector from the point q to the point p, k times as long.
Vector(q, p, k) == <<RatMul(RatInt(k), RatSub(p[1], q[1])), RatMul(RatInt(k), RatSub(p[2], q[2]))>>

PageCentre == <<Half, Half>>

\* The pixel positions (x, y) of an image.
Positions(im) == {<<RatInt(x), RatInt(y)>> : x \in 0..(im.w - 1), y \in 0..(im.h - 1)}

\* C13: for a positive angle in the rotation band, rotate_boxes turns the box
\* centres and rotate_page turns the content of the page in the same
\* direction about the centre, counter-clockwise.
C13_SameSignConvention ==
    /\ (BoxesRotated /\ rotArgs.angle[1] > 0) =>
          \A i \in 1..rotArgs.obj.n :
             LET ct == CentreOf(rotArgs.obj.rows[i])
                 r  == rotRet.out.rows[i]
             IN  ct # PageCentre =>
                    Turn(Vector(PageCentre, ct, 4), Vector(PageCentre, <<r[1], r[2]>>, 1))
                        = "counter-clockwise"
    /\ (PageRotated /\ rotArgs.angle[1] > 0) =>
          \A p \in Positions(rotArgs.obj) :
             p # rotRet.out.center =>
                Turn(Vector(rotRet.out.center, p, 2),
                     Vector(rotRet.out.center, WarpAffinePoint(rotRet.out.rot_mat, p), 1))
                    = "counter-clockwise"

\* C14: rotate_page rotates about the centre of the image: the position
\* (x = W/2, y = H/2) is the fixed point of the affine transform applied,
\* whatever the height H and the width W.
C14_RotationAboutImageCentre ==
    PageRotated =>
        LET ct == <<Rat(rotArgs.obj.w, 2), Rat(rotArgs.obj.h, 2)>>
            to == WarpAffinePoint(rotRet.out.rot_mat, ct)
        IN  RatEq(to[1], ct[1]) /\ RatEq(to[2], ct[2])

(***************************************************************************)
(* Claims about get_bitmap_angle.                                          *)
(***************************************************************************)
AngleDone == angPc = "done"

\* The sets of min(n_ct, N) contours than which no other contour is larger.
LargestContours ==
    LET cts == angArgs.contours
        N   == Len(cts)
    IN  {S \in SUBSET (1..N) :
            /\ Cardinality(S) = Min(angArgs.n_ct, N)
            /\ \A i \in S : \A j \in (1..N) \ S : cts[j].area <= cts[i].area}

RECURSIVE SumOver(_, _)
SumOver(S, F) ==
    IF S = {} THEN 0
    ELSE LET i == CHOOSE j \in S : TRUE IN F[i] + SumOver(S \ {i}, F)

\* The angle C15 announces for the rectangles of the contours S: with n
\* rectangles of angles a, std(a) > std_max is n * sum(a^2) - sum(a)^2 >
\* (n * std_max)^2 for a std_max that is not negative.
AnnouncedAngle(S) ==
    LET cts == angArgs.contours
        n   == Cardinality(S)
        m   == angArgs.std_max
        A   == SumOver(S, [i \in S |-> cts[i].alpha])
        Q   == SumOver(S, [i \in S |-> cts[i].alpha * cts[i].alpha])
        Wd  == SumOver(S, [i \in S |-> cts[i].size[1]])
        Ht  == SumOver(S, [i \in S |-> cts[i].size[2]])
    IN  IF (n * Q - A * A) * m[2] * m[2] > m[1] * m[1] * n * n
        THEN RatInt(0)
        ELSE IF Wd < Ht THEN Rat(90 * n - A, n) ELSE Rat(-A, n)

\* C15: over the min-area rectangles of the n_ct largest contours,
\* get_bitmap_angle returns 0.0 when the standard deviation of their angles
\* exceeds std_max, and otherwise minus the mean of the angles, plus 90
\* exactly when the widths sum to strictly less than the heights.
C15_BitmapAngle ==
    (AngleDone /\ angArgs.contours # <<>>) =>
        \E S \in LargestContours : angRet = AnnouncedAngle(S)

\* Of three contours the two largest are used: their angles -6 and 0 have
\* the standard deviation 3, not above std_max, and they are higher than wide.
C15_Witness ==
    /\ AngleDone
    /\ Len(angArgs.contours) = 3
    /\ angArgs.n_ct = 2
    /\ angArgs.std_max = RatInt(3)
    /\ angArgs.contours[1].area < angArgs.contours[2].area
    /\ angArgs.contours[1].alpha = -90
    /\ angRet = RatInt(93)

\* C16: on a bitmap in which no contour is found get_bitmap_angle returns
\* exactly 0.0, without an error.
C16_NoContourNoAngle ==
    (AngleDone /\ angArgs.contours = <<>>) => angRet = RatInt(0)

(***************************************************************************)
(* Claims about the detection post-processor.                              *)
(***************************************************************************)
PostProcessed == detOp \in {"postprocessor", "linknet", "fast"} /\ detPc \in {"done", "returned"}
PredsBuilt == detPc = "returned"

Zero == RatInt(0)
One == RatInt(1)

\* 0 <= xmin < xmax <= 1 and 0 <= ymin < ymax <= 1 for every row.
StraightBoxesValid(arr) ==
    \A i \in 1..arr.n :
        LET b == arr.rows[i]
        IN  /\ RatLeq(Zero, b[1]) /\ RatLt(b[1], b[3]) /\ RatLeq(b[3], One)
            /\ RatLeq(Zero, b[2]) /\ RatLt(b[2], b[4]) /\ RatLeq(b[4], One)

\* The arrays of boxes among the entries of out["preds"].
PredsArrays ==
    LET entries == {IF detOp = "fast" THEN detPreds[k].words ELSE detPreds[k] :
                        k \in 1..Len(detPreds)}
    IN  {x \in entries : "rows" \in DOMAIN x}

NoRegion(map) ==
    \A i \in 1..Len(map.contours) :
        LET c == map.contours[i]
        IN  c.shape.area = Zero \/ c.shape.points < 4 \/ RatLt(c.score, box_thresh)

\* C18: for a batch of B maps the post-processor returns B arrays, of 5
\* columns for straight and 6 for rotated boxes; the array of an image
\* without a surviving region, as of an all-zero map, has no row.
C18_OneArrayPerMap ==
    PostProcessed =>
        /\ Len(detRet[1]) = Len(detArgs.maps)
        /\ \A i \in 1..Len(detRet[1]) :
              LET arr == detRet[1][i]
              IN  /\ arr.k = IF detArgs.assume_straight_pages THEN 5 ELSE 6
                  /\ \A j \in 1..arr.n : Len(arr.rows[j]) = arr.k
                  /\ (detArgs.maps[i].zero \/ NoRegion(detArgs.maps[i])) => arr.n = 0

\* A batch of an all-zero map and of a map with a region that survives.
C18_Witness ==
    /\ PostProcessed
    /\ Len(detArgs.maps) = 2
    /\ detArgs.maps[1].zero
    /\ detRet[1][1].n = 0
    /\ detRet[1][2].n = 1

PolygonBoxed == detOp = "polygon_to_box" /\ detPc = "done"

\* C19: on a degenerate contour or one whose expansion yields more than one
\* polygon polygon_to_box does not raise: it returns the bounding rectangle
\* of the un-expanded points, a 4-tuple for straight and a 5-tuple for
\* rotated boxes.
C19_FallbackToBoundingRectangle ==
    LET c == detArgs.points
    IN  (PolygonBoxed /\ (c.expanded > 1 \/ c.shape.area = Zero)) =>
            /\ detRet.status = "ok"
            /\ IF detArgs.assume_straight_pages
               THEN /\ Len(detRet.box) = 4
                    /\ detRet.box = <<RatInt(c.shape.xmin), RatInt(c.shape.ymin),
                                      RatInt(c.shape.xmax), RatInt(c.shape.ymax)>>
               ELSE /\ Len(detRet.box) = 5
                    /\ RatEq(detRet.box[3], RatInt(c.shape.xmax - c.shape.xmin))
                    /\ RatEq(detRet.box[4], RatInt(c.shape.ymax - c.shape.ymin))
                    /\ RatEq(RatMul(RatInt(2), detRet.box[1]), RatInt(c.shape.xmin + c.shape.xmax))
                    /\ RatEq(RatMul(RatInt(2), detRet.box[2]), RatInt(c.shape.ymin + c.shape.ymax))

\* The expansion of a square contour has yielded two polygons, rotated boxes
\* being configured.
C19_Witness ==
    /\ PolygonBoxed
    /\ ~detArgs.assume_straight_pages
    /\ detArgs.points.expanded = 2
    /\ detArgs.points.shape.points = 4
    /\ Len(detRet.box) = 5

(***************************************************************************)
(* Claims about the OCR predictor.                                         *)
(***************************************************************************)
OcrDone == ocrPc = "done"

\* C20: once the words of all crops are split per page, page k has as many
\* words as it has detected boxes, and its j-th word is the recognition
\* result of the crop of its j-th box, whatever the number of pages, the box
\* counts (0 included) and the recognition batch size.
C20_WordsOfEachPage ==
    OcrDone =>
        /\ Len(ocrPages) = Len(ocrArgs.counts)
        /\ \A k \in 1..Len(ocrPages) :
              /\ Len(ocrPages[k]) = ocrArgs.counts[k]
              /\ \A j \in 1..Len(ocrPages[k]) :
                    /\ ocrPages[k][j].text_of = [page |-> k, box |-> j]
                    /\ ocrPages[k][j].confidence_of = [page |-> k, box |-> j]

\* Three pages of 2, 0 and 1 boxes, recognised in batches of 2: the second
\* batch holds the only crop of the third page.
C20_Witness ==
    /\ OcrDone
    /\ ocrArgs.counts = <<2, 0, 1>>
    /\ ocrArgs.reco_bs = 2
    /\ ocrPages[2] = <<>>
    /\ Len(ocrPages[3]) = 1

\* C27: for a non-empty list of min-area rectangles whose angles all lie in
\* [-90, 0), the value get_bitmap_angle returns lies in [-90, 90], the range
\* of the angle argument of rotate_page and rotate_boxes.
C27_AngleInRange ==
    (/\ AngleDone
     /\ angArgs.contours # <<>>
     /\ \A i \in 1..Len(angArgs.contours) :
            -90 <= angArgs.contours[i].alpha /\ angArgs.contours[i].alpha < 0) =>
        /\ angRet # NaN
        /\ RatLeq(RatInt(-90), angRet)
        /\ RatLeq(angRet, RatInt(90))

(***************************************************************************)
(* Claims about crop_detection.                                            *)
(***************************************************************************)
\* Some coordinate of the crop box is below 0 or above 1.
OutOfRange ==
    \E k \in 1..4 : cdArgs.crop_box[k][1] < 0 \/ cdArgs.crop_box[k][1] > cdArgs.crop_box[k][2]

ImportEnded == fuPc \in {"imported", "failed"}

\* The environment variable enables its framework: one of 1, ON, YES, TRUE,
\* AUTO in any case, AUTO when it is not set.
Enabled(var) ==
    (IF var.set THEN var.value ELSE "AUTO") \in
        {"1", "on", "ON", "Yes", "YES", "true", "TRUE", "auto", "AUTO"}

TfUsable == fuInstalled.tf = "v2" /\ Enabled(fuEnv.USE_TF)
TorchUsable == fuInstalled.torch = "installed" /\ Enabled(fuEnv.USE_TORCH)

\* C23: importing doctr.file_utils raises ModuleNotFoundError if and only if
\* no framework is both installed (TensorFlow >= 2, or PyTorch) and enabled
\* by its environment variable.
C23_RaisesIffNoUsableFramework ==
    ImportEnded => ((fuErr = "ModuleNotFoundError") <=> ~(TfUsable \/ TorchUsable))

\* C29: after an import without error exactly one of is_tf_available() and
\* is_torch_available() is true.
C29_ExactlyOneFramework ==
    fuPc = "imported" => (is_tf_available # is_torch_available)

\* Both frameworks are installed and enabled, and the import has succeeded.
C29_Witness ==
    /\ fuPc = "imported"
    /\ TfUsable /\ TorchUsable
    /\ is_tf_available

(***************************************************************************)
(* Claims about PARSeq.                                                    *)
(***************************************************************************)
\* The tokens generated so far for sequence n: positions 1 .. psI of tgt_in.
Generated(n) == {tgt_in[n][k + 1] : k \in 1..Min(psI, psArgs.max_length - 1)}

\* C22: in the greedy loop no further decoding step is performed once every
\* sequence of the batch has an end-of-sequence token, the class index
\* len(vocab), among its generated tokens: the loop is never about to decode
\* in such a state.
C22_StopsWhenAllHaveEos ==
    (psOp = "forward" /\ psPc = "loop" /\ psI >= 1) =>
        ~(\A n \in 1..psArgs.N : EosIdx \in Generated(n))

\* The decoder input of the greedy step that has just run, and of the
\* refinement pass.
InputOfStep(i) == psEmbedded[i + 1]

\* C30: at every greedy step i the decoder input is the SOS token followed
\* by the arg-max tokens of the steps 0..i-1, the positions 1..max_length-1
\* are written at most once and in increasing order, and the placeholder
\* self.vocab_size is never passed to text_embed, in the loop or in the
\* refinement pass.
C30_DecoderInputIsWritten ==
    psOp = "forward" =>
        /\ \A i \in 0..(psI - 1) : \A n \in 1..psArgs.N :
              InputOfStep(i)[n] = <<vocab_size - 1>> \o [k \in 1..i |-> psSteps[k][n]]
        /\ \A a, b \in 1..Len(psWritten) : a < b => psWritten[a] < psWritten[b]
        /\ \A a \in 1..Len(psWritten) : psWritten[a] \in 1..(psArgs.max_length - 1)
        /\ \A c \in 1..Len(psEmbedded) : \A n \in 1..psArgs.N :
              \A k \in 1..Len(psEmbedded[c][n]) : psEmbedded[c][n][k] # vocab_size

\* A batch of two sequences decoded over three steps and refined.
C30_Witness ==
    /\ psOp = "forward"
    /\ psPc = "done"
    /\ psArgs.N = 2
    /\ psI = 3
    /\ Len(psWritten) = 2
    /\ Len(psEmbedded) = 4

\* C28: the mask built by generate_attention_masks has entry
\* [perm[i], perm[j]] equal to 0 for all i < j, so that the content mask of
\* a permutation of three or more positions is not all ones, and that of the
\* forward permutation differs from that of its reverse.
C28_LaterPositionsMasked ==
    (psOp = "generate_attention_masks" /\ psPc = "done") =>
        LET perm == psArgs.permutation
            sz   == Len(perm)
            rev  == [k \in 1..sz |-> perm[sz + 1 - k]]
        IN  /\ \A i, j \in 1..sz : i < j => psMasks.mask[perm[i]][perm[j]] = 0
            /\ sz >= 3 =>
                  /\ \E r, c \in 0..(sz - 2) : psMasks.content_mask[r][c] # 1
                  /\ (\A k \in 1..sz : perm[k] = k - 1) =>
                        psMasks.content_mask # generate_attention_masks(rev).content_mask

(***************************************************************************)
(* Claims about the two implementations of the recognition post-processor. *)
(***************************************************************************)
\* The post-processors whose embedding covers every class of the logits.
Decodes(a) == Len(Embedding(a)) >= NumClasses(arch)

\* C24: for the same vocabulary and the same logits of at least one
\* timestep, the PyTorch post-processors (SAR, PARSeq) and the TensorFlow
\* post-processors (MASTER, ViTSTR) return the same list of (text,
\* confidence) pairs.
C24_TorchAndTfAgree ==
    RecDone =>
        LET sar    == SARPostProcessor(logits)
            parseq == PARSeqPostProcessor(logits)
            master == MASTERPostProcessor(logits)
            vitstr == ViTSTRPostProcessor(logits)
        IN  /\ (Decodes("sar") /\ Decodes("master")) => sar = master
            /\ (Decodes("sar") /\ Decodes("vitstr")) => sar = vitstr
            /\ (Decodes("parseq") /\ Decodes("master")) => parseq = master
            /\ (Decodes("parseq") /\ Decodes("vitstr")) => parseq = vitstr

\* A sequence that starts with end-of-sequence and goes on with a character:
\* the first piece of the split is empty.
C24_Witness ==
    /\ RecDone
    /\ Decodes("sar") /\ Decodes("master")
    /\ \E i \in 1..Len(logits) :
          /\ Len(logits[i]) >= 2
          /\ Idxs(i)[1] = EosIdx
          /\ Idxs(i)[2] = 0
          /\ preds[i][1] = <<>>

\* C25: the text is cut only at a timestep whose arg-max index is the
\* end-of-sequence index: a sequence whose timesteps all select ordinary
\* vocabulary characters keeps one character per timestep, also when these
\* characters spell '<', 'e', 'o', 's', '>'.
C25_OnlyEosIndexCuts ==
    RecDone =>
        \A i \in 1..Len(logits) :
            (\A t \in 1..Len(logits[i]) : Idxs(i)[t] < EosIdx) =>
                Len(preds[i][1]) = Len(logits[i])

(***************************************************************************)
(* Claims about SAR inference.                                             *)
(***************************************************************************)
SarInferred == sarPc = "done" /\ ~sarArgs.target

\* The value p lies in the enclosure c.
Within(p, c) == RatLeq(c.lo, p) /\ RatLeq(p, c.hi)

\* C26: in SAR inference softmax is applied exactly once between the raw
\* scores of output_dense and the reported confidence: the confidence is the
\* minimum over the timesteps of the largest softmax probability of the raw
\* scores, as when the post-processor is given the raw scores themselves.
C26_SoftmaxAppliedOnce ==
    SarInferred =>
        \A i \in 1..Len(sarPreds) :
            Within(SARPostProcessor(sarArgs.scores)[i][2], sarPreds[i][2])

====
